---- MODULE Spec2Model ----
(***************************************************************************)
(* Model of resume_parser.py: the fallback heuristic extraction engine     *)
(* (extract_basic_info, extract_skills, extract_experience,                *)
(* extract_projects, extract_education), the link pipeline                 *)
(* (extract_links_from_pdf, extract_links_from_text, extract_links,        *)
(* get_github_profile), and the primary path (ats_extractor and the branch *)
(* of __main__ on its result).                                             *)
(*                                                                         *)
(* A Python str is a sequence of one-character strings.  The characters    *)
(* that are not ASCII are written by name: "BULLET" is U+2022, "ENDASH" is *)
(* U+2013, "ASTOP" is U+2217.  A Python list is a sequence, a dict is a    *)
(* record.                                                                 *)
(***************************************************************************)
EXTENDS Integers, Sequences, FiniteSets, TLC

VARIABLES
    text,            \* extracted_text: the normalized document
    pdf_links,       \* the URIs of the document's link annotations, in page order
    pc,              \* position of the run in the pipeline
    run,             \* number of the current run of the program on the same input
    github_links,    \* extract_links()[0]
    linkedin_links,  \* extract_links()[1]
    github_profile,  \* get_github_profile(github_links)
    basic_info,      \* extract_basic_info(text)
    skills,          \* extract_skills(text)
    experience,      \* extract_experience(text)
    projects,        \* extract_projects(text)
    education,       \* extract_education(text)
    printed,         \* the records printed by the runs that have ended
    exp_lines,       \* extract_experience: lines, the stripped non-blank lines walked
    line_idx,        \* extract_experience: i, the index of the line looked at (from 1)
    exp_details,     \* extract_experience: details, the details closed so far
    open_point,      \* extract_experience: current_point, '' when no detail is open
    attempt,         \* ats_extractor: the loop variable of the retry loop
    requests,        \* the outcomes of the requests.post calls made so far
    parsed_data      \* the value ats_extractor returned, with its Python type

\* the locals of the loops of extract_experience
loopVars == <<exp_lines, line_idx, exp_details, open_point>>

\* the state of the call of ats_extractor
apiVars == <<attempt, requests, parsed_data>>

vars == <<text, pdf_links, pc, run, github_links, linkedin_links, github_profile,
          basic_info, skills, experience, projects, education, printed, loopVars, apiVars>>

-----------------------------------------------------------------------------
(* Characters *)

UpperChars == <<"A","B","C","D","E","F","G","H","I","J","K","L","M",
                "N","O","P","Q","R","S","T","U","V","W","X","Y","Z">>
LowerChars == <<"a","b","c","d","e","f","g","h","i","j","k","l","m",
                "n","o","p","q","r","s","t","u","v","w","x","y","z">>
UpperSet == {UpperChars[i] : i \in DOMAIN UpperChars}
LowerSet == {LowerChars[i] : i \in DOMAIN LowerChars}
DigitSet == {"0","1","2","3","4","5","6","7","8","9"}
SpaceSet == {" ", "\n", "\t"}

LowerMap == [c \in UpperSet |-> LowerChars[CHOOSE i \in DOMAIN UpperChars : UpperChars[i] = c]]

Lower(c) == IF c \in UpperSet THEN LowerMap[c] ELSE c
IsSpace(c) == c \in SpaceSet
IsUpper(c) == c \in UpperSet
IsAlpha(c) == c \in UpperSet \/ c \in LowerSet
IsDigit(c) == c \in DigitSet
\* \w of the regular expressions
IsWord(c) == IsAlpha(c) \/ IsDigit(c) \/ c = "_"

-----------------------------------------------------------------------------
(* Python str and list operations *)

Max(S) == CHOOSE x \in S : \A y \in S : y <= x
Min(S) == CHOOSE x \in S : \A y \in S : x <= y

Take(s, n) == SubSeq(s, 1, IF Len(s) < n THEN Len(s) ELSE n)
Drop(s, n) == SubSeq(s, n + 1, Len(s))

\* s.lower()
LowerStr(s) == [i \in DOMAIN s |-> Lower(s[i])]

\* s[i:].startswith(p), with i counted from 1
MatchAt(s, i, p) ==
    /\ i >= 1
    /\ i + Len(p) - 1 <= Len(s)
    /\ \A k \in 1..Len(p) : s[i + k - 1] = p[k]

\* the same under re.IGNORECASE
MatchAtCI(s, i, p) ==
    /\ i >= 1
    /\ i + Len(p) - 1 <= Len(s)
    /\ \A k \in 1..Len(p) : Lower(s[i + k - 1]) = Lower(p[k])

StartsWith(s, p) == MatchAt(s, 1, p)
EndsWith(s, p) == MatchAt(s, Len(s) - Len(p) + 1, p)
StartsWithAny(s, ps) == \E p \in ps : StartsWith(s, p)
EndsWithAny(s, ps) == \E p \in ps : EndsWith(s, p)

\* p in s
Contains(s, p) == \E i \in 1..(Len(s) - Len(p) + 1) : MatchAt(s, i, p)
ContainsCI(s, p) == \E i \in 1..(Len(s) - Len(p) + 1) : MatchAtCI(s, i, p)

\* A left-to-right scan: the first position j in lo..hi where P(j) holds, hi+1 when
\* there is none (and lo when lo > hi).  The position is unique, so CHOOSE names it.
FirstPos(lo, hi, P(_)) ==
    IF lo > hi THEN lo
    ELSE CHOOSE j \in lo..(hi + 1) : /\ j = hi + 1 \/ P(j)
                                     /\ \A k \in lo..(j - 1) : ~P(k)

\* A right-to-left scan: the last position j in lo..hi where P(j) holds, lo-1 when
\* there is none
LastPos(lo, hi, P(_)) ==
    IF lo > hi THEN lo - 1
    ELSE CHOOSE j \in (lo - 1)..hi : /\ j = lo - 1 \/ P(j)
                                     /\ \A k \in (j + 1)..hi : ~P(k)

\* s.find(p, i-1) + 1: the first position >= i where p occurs, 0 when there is none
Find(s, p, i) ==
    LET At(j, last) == IF j > last THEN 0 ELSE j
        Upto(last) ==
            IF i > last THEN 0 ELSE At(FirstPos(i, last, LAMBDA k : MatchAt(s, k, p)), last)
    IN  Upto(Len(s) - Len(p) + 1)

FindCI(s, p, i) ==
    LET At(j, last) == IF j > last THEN 0 ELSE j
        Upto(last) ==
            IF i > last THEN 0 ELSE At(FirstPos(i, last, LAMBDA k : MatchAtCI(s, k, p)), last)
    IN  Upto(Len(s) - Len(p) + 1)

\* the first position >= i that holds a non-whitespace / a whitespace character,
\* Len(s)+1 when there is none
SkipSpace(s, i) ==
    IF i > Len(s) THEN Len(s) + 1 ELSE FirstPos(i, Len(s), LAMBDA k : ~IsSpace(s[k]))

SkipNonSpace(s, i) ==
    IF i > Len(s) THEN Len(s) + 1 ELSE FirstPos(i, Len(s), LAMBDA k : IsSpace(s[k]))

\* the last position <= i that holds a non-whitespace character, 0 when there is none
SkipSpaceBack(s, i) == LastPos(1, i, LAMBDA k : ~IsSpace(s[k]))

\* s.strip()
Strip(s) == SubSeq(s, SkipSpace(s, 1), SkipSpaceBack(s, Len(s)))

\* s.split(c) for a one-character separator c
RECURSIVE SplitFrom(_, _, _)
SplitFrom(s, c, i) ==
    LET Cut(j) == IF j = 0 THEN <<SubSeq(s, i, Len(s))>>
                  ELSE <<SubSeq(s, i, j - 1)>> \o SplitFrom(s, c, j + 1)
    IN  Cut(Find(s, <<c>>, i))

Split(s, c) == SplitFrom(s, c, 1)

\* s.split(c, 1)
SplitOnce(s, c) ==
    LET Cut(j) == IF j = 0 THEN <<s>> ELSE <<SubSeq(s, 1, j - 1), SubSeq(s, j + 1, Len(s))>>
    IN  Cut(Find(s, <<c>>, 1))

\* s.split(): the maximal runs of non-whitespace characters
RECURSIVE WordsFrom(_, _)
WordsFrom(s, i) ==
    LET Word(b, e) == <<SubSeq(s, b, e - 1)>> \o WordsFrom(s, e)
        From(b) == IF b > Len(s) THEN <<>> ELSE Word(b, SkipNonSpace(s, b))
    IN  From(SkipSpace(s, i))

Words(s) == WordsFrom(s, 1)

\* s.split(None, 1)
SplitFirstWord(s) ==
    LET Rest(b, e, r) == IF r > Len(s) THEN <<SubSeq(s, b, e - 1)>>
                         ELSE <<SubSeq(s, b, e - 1), SubSeq(s, r, Len(s))>>
        Word(b, e) == Rest(b, e, SkipSpace(s, e))
        From(b) == IF b > Len(s) THEN <<>> ELSE Word(b, SkipNonSpace(s, b))
    IN  From(SkipSpace(s, 1))

\* s.replace(old, ""): the occurrences of old, left to right and not overlapping, removed
RECURSIVE RemoveFrom(_, _, _)
RemoveFrom(s, old, i) ==
    LET Cut(j) == IF j = 0 THEN SubSeq(s, i, Len(s))
                  ELSE SubSeq(s, i, j - 1) \o RemoveFrom(s, old, j + Len(old))
    IN  Cut(Find(s, old, i))

Remove(s, old) == RemoveFrom(s, old, 1)

\* re.sub(r'\s+', ' ', s)
RECURSIVE CollapseFrom(_, _)
CollapseFrom(s, i) ==
    LET Run(e) == SubSeq(s, i, e - 1) \o CollapseFrom(s, e)
    IN  IF i > Len(s) THEN <<>>
        ELSE IF IsSpace(s[i]) THEN <<" ">> \o CollapseFrom(s, SkipSpace(s, i))
        ELSE Run(SkipNonSpace(s, i))

CollapseSpace(s) == CollapseFrom(s, 1)

NonEmpty(s) == s # <<>>

\* [line.strip() for line in s.split('\n')]
StrippedLines(s) ==
    LET Stripped(ls) == [i \in DOMAIN ls |-> Strip(ls[i])]
    IN  Stripped(Split(s, "\n"))

\* [line.strip() for line in s.split('\n') if line.strip()]
NonBlankLines(s) == SelectSeq(StrippedLines(s), NonEmpty)

\* the elements of a sequence
Range(xs) == {xs[i] : i \in DOMAIN xs}

\* "sep".join(xs)
RECURSIVE Join(_, _)
Join(xs, sep) ==
    IF xs = <<>> THEN <<>>
    ELSE IF Len(xs) = 1 THEN xs[1]
    ELSE xs[1] \o sep \o Join(Tail(xs), sep)

-----------------------------------------------------------------------------
(* Sections: re.search(r'HEADER\s+(.*?)(?:T1|T2|...|\Z)', text, re.DOTALL | re.IGNORECASE) *)

\* the header keywords of the section patterns
K_SKILLS == <<"S","K","I","L","L","S">>
K_PROJECTS == <<"P","R","O","J","E","C","T","S">>
K_CERTIFICATIONS == <<"C","E","R","T","I","F","I","C","A","T","I","O","N","S">>
K_ACHIEVEMENTS == <<"A","C","H","I","E","V","E","M","E","N","T","S">>
K_EXPERIENCE == <<"E","X","P","E","R","I","E","N","C","E">>
K_EDUCATION == <<"E","D","U","C","A","T","I","O","N">>
K_KEY == <<"K","E","Y">>
K_RELEVANTCOURSEWORK == <<"R","E","L","E","V","A","N","T","C","O","U","R","S","E","W","O","R","K">>
K_RELEVANT_COURSEWORK == <<"R","E","L","E","V","A","N","T"," ","C","O","U","R","S","E","W","O","R","K">>
K_KEY_COURSES == <<"K","E","Y"," ","C","O","U","R","S","E","S">>
K_EXTRACURRICULAR == <<"E","X","T","R","A","C","U","R","R","I","C","U","L","A","R">>
K_TECHNICAL_SKILLS == <<"T","E","C","H","N","I","C","A","L"," ","S","K","I","L","L","S">>

\* the first position >= i where one of the strings ps occurs, the case ignored;
\* Len(s)+1, where \Z matches, when there is none
FindAnyCI(s, ps, i) ==
    IF i > Len(s) THEN Len(s) + 1
    ELSE FirstPos(i, Len(s), LAMBDA k : \E p \in ps : MatchAtCI(s, k, p))

\* the first position where the header occurs followed by a whitespace character
\* (HEADER\s+), 0 when there is none
FindHeader(s, header) ==
    LET HeaderAt(k) == /\ MatchAtCI(s, k, header)
                       /\ k + Len(header) <= Len(s)
                       /\ IsSpace(s[k + Len(header)])
        At(h) == IF h > Len(s) THEN 0 ELSE h
    IN  At(FirstPos(1, Len(s), LAMBDA k : HeaderAt(k)))

\* SectionMatch with the header made optional: (?:HEADER\s+)?(.*?)(?:T1|...|\Z)
SectionMatchOptionalHeader(s, header, terminators) ==
    LET Body(h, b) == [found |-> TRUE, at |-> h, from |-> b,
                       to |-> FindAnyCI(s, terminators, b)]
        At(h) == IF h = 0 THEN Body(1, 1) ELSE Body(h, SkipSpace(s, h + Len(header)))
    IN  At(FindHeader(s, header))

\* The match object of the section pattern: found is whether re.search matched, at is
\* where the header starts, from..to-1 are the positions of group(1).  \s+ is greedy and
\* takes the whole whitespace run; .*? then stops before the first terminator or at \Z.
SectionMatch(s, header, terminators) ==
    LET Body(h, b) == [found |-> TRUE, at |-> h, from |-> b,
                       to |-> FindAnyCI(s, terminators, b)]
        At(h) == IF h = 0 THEN [found |-> FALSE, at |-> 0, from |-> 0, to |-> 0]
                 ELSE Body(h, SkipSpace(s, h + Len(header)))
    IN  At(FindHeader(s, header))

\* match.group(1)
Group1(s, m) == SubSeq(s, m.from, m.to - 1)

SkillsTerminators == {K_PROJECTS, K_CERTIFICATIONS, K_ACHIEVEMENTS, K_EXPERIENCE, K_EDUCATION}
ExperienceTerminators == {K_PROJECTS, K_SKILLS, K_EDUCATION, K_CERTIFICATIONS}
ProjectsTerminators ==
    {K_RELEVANTCOURSEWORK, K_RELEVANT_COURSEWORK, K_KEY_COURSES, K_EXTRACURRICULAR,
     K_EDUCATION, K_SKILLS, K_CERTIFICATIONS, K_ACHIEVEMENTS, K_TECHNICAL_SKILLS}
EducationTerminators == {K_EXPERIENCE, K_PROJECTS, K_SKILLS, K_CERTIFICATIONS}

skills_section_match(t) == SectionMatch(t, K_SKILLS, SkillsTerminators)
exp_section_match(t) == SectionMatch(t, K_EXPERIENCE, ExperienceTerminators)
edu_section_match(t) == SectionMatch(t, K_EDUCATION, EducationTerminators)

\* (?:KEY\s+)?PROJECTS\s+(.*?)(?:...): the match starts at a KEY that only whitespace
\* separates from the first PROJECTS that whitespace follows, else at that PROJECTS
projects_section_match(t) ==
    LET Keyed(m, k) == IF /\ m.found
                          /\ k < m.at - 1
                          /\ MatchAtCI(t, k - Len(K_KEY) + 1, K_KEY)
                       THEN [m EXCEPT !.at = k - Len(K_KEY) + 1] ELSE m
        Match(m) == Keyed(m, SkipSpaceBack(t, m.at - 1))
    IN  Match(SectionMatch(t, K_PROJECTS, ProjectsTerminators))

-----------------------------------------------------------------------------
(* extract_skills *)

\* skill_patterns: each pattern is \b(?:a1|a2|...)\b, the alternatives in order
skill_patterns == <<
    <<<<"P","y","t","h","o","n">>,
      <<"J","a","v","a","S","c","r","i","p","t">>,
      <<"J","a","v","a">>,
      <<"C","+","+">>,
      <<"S","Q","L">>,
      <<"H","T","M","L">>,
      <<"C","S","S">>,
      <<"R","e","a","c","t">>,
      <<"N","o","d","e",".","j","s">>>>,
    <<<<"M","y","S","Q","L">>,
      <<"M","o","n","g","o","D","B">>,
      <<"P","o","s","t","g","r","e","S","Q","L">>,
      <<"R","e","d","i","s">>,
      <<"A","W","S">>,
      <<"D","o","c","k","e","r">>,
      <<"G","i","t">>>>,
    <<<<"T","e","n","s","o","r","F","l","o","w">>,
      <<"P","y","T","o","r","c","h">>,
      <<"P","a","n","d","a","s">>,
      <<"N","u","m","P","y">>,
      <<"O","p","e","n","C","V">>,
      <<"M","a","t","p","l","o","t","l","i","b">>>>,
    <<<<"P","o","w","e","r"," ","B","I">>,
      <<"T","a","b","l","e","a","u">>,
      <<"E","x","c","e","l">>,
      <<"V","i","s","u","a","l"," ","S","t","u","d","i","o">>,
      <<"V","S"," ","C","o","d","e">>>>
>>

MonthNames == <<
    <<"J","a","n","u","a","r","y">>,
    <<"F","e","b","r","u","a","r","y">>,
    <<"M","a","r","c","h">>,
    <<"A","p","r","i","l">>,
    <<"M","a","y">>,
    <<"J","u","n","e">>,
    <<"J","u","l","y">>,
    <<"A","u","g","u","s","t">>,
    <<"S","e","p","t","e","m","b","e","r">>,
    <<"O","c","t","o","b","e","r">>,
    <<"N","o","v","e","m","b","e","r">>,
    <<"D","e","c","e","m","b","e","r">>>>

SkillStopList == {
    <<"e","x","p","e","r","i","e","n","c","e">>,
    <<"p","r","o","j","e","c","t","s">>,
    <<"e","d","u","c","a","t","i","o","n">>,
    <<"s","k","i","l","l","s">>,
    <<"l","a","n","g","u","a","g","e","s">>,
    <<"d","a","t","a","b","s","e","s">>,
    <<"l","i","b","r","a","r","i","e","s">>,
    <<"f","r","a","m","e","w","o","r","k","s">>}

\* \b before position i: exactly one of s[i-1], s[i] is a word character
WordBoundary(s, i) ==
    LET before == i > 1 /\ i - 1 <= Len(s) /\ IsWord(s[i - 1])
        after == i >= 1 /\ i <= Len(s) /\ IsWord(s[i])
    IN  before # after

\* the alternatives of \b(?:a1|a2|...)\b that match at position i, the case ignored
AltsAt(s, alts, i) ==
    {k \in DOMAIN alts : /\ MatchAtCI(s, i, alts[k])
                         /\ WordBoundary(s, i + Len(alts[k]))}

\* re.findall(r'\b(?:a1|a2|...)\b', s, re.IGNORECASE) from position i on: the matches
\* left to right, not overlapping, at each position the first alternative that matches
RECURSIVE FindAllAlts(_, _, _)
FindAllAlts(s, alts, i) ==
    LET Matched(j, n) == <<SubSeq(s, j, j + n - 1)>> \o FindAllAlts(s, alts, j + n)
        At(j) == IF j > Len(s) THEN <<>>
                 ELSE Matched(j, Len(alts[Min(AltsAt(s, alts, j))]))
    IN  IF i > Len(s) THEN <<>>
        ELSE At(FirstPos(i, Len(s),
                         LAMBDA p : WordBoundary(s, p) /\ AltsAt(s, alts, p) # {}))

\* [x for xs in xss for x in xs]
RECURSIVE Flatten(_)
Flatten(xss) == IF xss = <<>> THEN <<>> ELSE Head(xss) \o Flatten(Tail(xss))

\* one line of the SKILLS section: "Category Item1 | Item2 | Item3"
SkillLineItems(raw) ==
    LET Items(items) == SelectSeq([i \in DOMAIN items |-> Strip(items[i])], NonEmpty)
        Parts(line, parts) == IF Contains(line, <<"|">>) /\ Len(parts) >= 2
                              THEN Items(Split(parts[2], "|")) ELSE <<>>
        Line(line) == Parts(line, SplitFirstWord(line))
    IN  Line(Strip(raw))

\* skills after the section loop
SectionSkills(t) ==
    LET Lines(lines) == Flatten([i \in DOMAIN lines |-> SkillLineItems(lines[i])])
        Match(m) == IF m.found THEN Lines(Split(Strip(Group1(t, m)), "\n")) ELSE <<>>
    IN  Match(skills_section_match(t))

\* skills after the fallback over the whole text
CatalogSkills(t) ==
    Flatten([k \in DOMAIN skill_patterns |-> FindAllAlts(t, skill_patterns[k], 1)])

RawSkills(t) ==
    LET Fallback(section_skills) ==
            IF section_skills # <<>> THEN section_skills ELSE CatalogSkills(t)
    IN  Fallback(SectionSkills(t))

\* re.search(r'\b\d{4}\b', s)
HasYear(s) ==
    \E i \in 1..(Len(s) - 3) :
        /\ \A k \in 0..3 : IsDigit(s[i + k])
        /\ WordBoundary(s, i)
        /\ WordBoundary(s, i + 4)

HasMonthName(s) == \E k \in DOMAIN MonthNames : ContainsCI(s, MonthNames[k])

\* the condition of the cleaning loop, the test against cleaned_skills aside
KeepSkill(skill) ==
    /\ skill # <<>>
    /\ Len(skill) > 1
    /\ Len(skill) < 30
    /\ ~HasYear(skill)
    /\ ~HasMonthName(skill)
    /\ LowerStr(skill) \notin SkillStopList

\* the cleaning loop: cleaned_skills after the skills xs, starting from acc
RECURSIVE CleanSkills(_, _)
CleanSkills(xs, acc) ==
    LET Clean(skill) == IF KeepSkill(skill) /\ skill \notin Range(acc)
                        THEN Append(acc, skill) ELSE acc
    IN  IF xs = <<>> THEN acc ELSE CleanSkills(Tail(xs), Clean(Strip(Head(xs))))

cleaned_skills(t) == CleanSkills(RawSkills(t), <<>>)

MaxSkills == 15

extract_skills(t) == Take(cleaned_skills(t), MaxSkills)

-----------------------------------------------------------------------------
(* extract_basic_info *)

\* 'resume'
S_resume == <<"r","e","s","u","m","e">>
\* 'cv'
S_cv == <<"c","v">>
\* 'curriculum vitae'
S_curriculum_vitae == <<"c","u","r","r","i","c","u","l","u","m"," ","v","i","t","a","e">>
\* 'Not found'
NotFound == <<"N","o","t"," ","f","o","u","n","d">>

GenericHeaders == {S_resume, S_cv, S_curriculum_vitae}

NameScanLines == 10

\* s.isalpha()
IsAlphaStr(s) == s # <<>> /\ \A i \in DOMAIN s : IsAlpha(s[i])

\* word.replace('.', '').replace(',', '').isalpha() and word[0].isupper()
NameWord(word) ==
    /\ IsAlphaStr(Remove(Remove(word, <<".">>), <<",">>))
    /\ IsUpper(word[1])

\* the test with word.istitle() in place of word[0].isupper()
LooksLikeTitleName(raw) ==
    LET line == Strip(raw)
        words == Words(line)
    IN  /\ line # <<>>
        /\ LowerStr(line) \notin GenericHeaders
        /\ 2 <= Len(words)
        /\ Len(words) <= 4
        /\ \A i \in DOMAIN words :
               /\ NameWord(words[i])
               /\ \A k \in 2..Len(words[i]) : ~IsUpper(words[i][k])

\* the test of the name loop on one raw line
LooksLikeName(raw) ==
    LET line == Strip(raw)
        words == Words(line)
    IN  /\ line # <<>>
        /\ LowerStr(line) \notin GenericHeaders
        /\ 2 <= Len(words)
        /\ Len(words) <= 4
        /\ \A i \in DOMAIN words : NameWord(words[i])

\* name after the loop over lines[:10]
ExtractName(t) ==
    LET Hits(lines) == {i \in DOMAIN lines : LooksLikeName(lines[i])}
        Name(lines, hits) == IF hits = {} THEN NotFound ELSE Strip(lines[Min(hits)])
        First(lines) == Name(lines, Hits(lines))
    IN  First(Take(Split(t, "\n"), NameScanLines))

\* the length of the run of characters of the set C that starts at position i
RunLen(s, i, C) ==
    IF i < 1 \/ i > Len(s) THEN 0
    ELSE FirstPos(i, Len(s), LAMBDA k : s[k] \notin C) - i

AlphaSet == UpperSet \cup LowerSet
AlnumSet == AlphaSet \cup DigitSet
\* [A-Za-z0-9._%+-], [A-Za-z0-9.-], [A-Z|a-z]
EmailLocalChar == AlnumSet \cup {".", "_", "%", "+", "-"}
EmailDomainChar == AlnumSet \cup {".", "-"}
EmailTldChar == AlphaSet \cup {"|"}

\* \b[A-Za-z0-9._%+-]+@[A-Za-z0-9.-]+\.[A-Z|a-z]{2,}\b tried at position i: the position
\* after the match, 0 when it does not match.  The local part is the whole run before
\* the @; the domain part and then the last part are each as long as a match allows.
EmailEndAt(s, i) ==
    LET n == RunLen(s, i, EmailLocalChar)
        a == i + n
        d == RunLen(s, a + 1, EmailDomainChar)
        \* the ends e of the match for a domain part of length k
        Ends(k) == LET dot == a + 1 + k
                       r == RunLen(s, dot + 1, EmailTldChar)
                   IN  IF s[dot] = "." 
                       THEN {dot + 1 + m : m \in {m \in 2..r : WordBoundary(s, dot + 1 + m)}}
                       ELSE {}
        ks == {k \in 1..(d - 1) : Ends(k) # {}}
    IN  IF /\ WordBoundary(s, i)
           /\ n >= 1
           /\ a <= Len(s)
           /\ s[a] = "@"
           /\ ks # {}
        THEN Max(Ends(Max(ks)))
        ELSE 0

\* re.findall(email_pattern, text)[0], "Not found" when the list is empty
FirstEmail(s) ==
    LET i == FirstPos(1, Len(s), LAMBDA k : EmailEndAt(s, k) # 0)
    IN  IF i > Len(s) THEN NotFound ELSE SubSeq(s, i, EmailEndAt(s, i) - 1)

PhoneDigits == 10

\* \d{10} at position i
TenDigits(s, i) == i >= 1 /\ RunLen(s, i, DigitSet) >= PhoneDigits

\* the phone pattern tried at position i: the position after the match of the first
\* alternative that matches, 0 when none does
PhoneEndAt(s, i) ==
    LET cc == RunLen(s, i + 2, DigitSet)    \* country code digits after "(+"
        close == i + 2 + cc
        c1 == RunLen(s, i + 1, DigitSet)    \* digits after "+"
        \* \+\d{1,3}[\s\-]?\d{10}: the longest country code first
        Plus(k) == LET p == i + 1 + k
                   IN  IF TenDigits(s, p) THEN p + PhoneDigits
                       ELSE IF p <= Len(s) /\ (IsSpace(s[p]) \/ s[p] = "-") /\ TenDigits(s, p + 1)
                       THEN p + 1 + PhoneDigits
                       ELSE 0
        ks == {k \in 1..3 : k <= c1 /\ Plus(k) # 0}
    IN  IF /\ MatchAt(s, i, <<"(", "+">>)
           /\ cc >= 1 /\ cc <= 3
           /\ close <= Len(s) /\ s[close] = ")"
           /\ \/ (close + 1 <= Len(s) /\ IsSpace(s[close + 1]) /\ TenDigits(s, close + 2))
              \/ TenDigits(s, close + 1)
        THEN IF close + 1 <= Len(s) /\ IsSpace(s[close + 1]) /\ TenDigits(s, close + 2)
             THEN close + 2 + PhoneDigits
             ELSE close + 1 + PhoneDigits
        ELSE IF MatchAt(s, i, <<"+">>) /\ ks # {} THEN Plus(Max(ks))
        ELSE IF TenDigits(s, i) THEN i + PhoneDigits
        ELSE 0

\* re.findall(phone_pattern, text)[0], "Not found" when the list is empty
FirstPhone(s) ==
    LET i == FirstPos(1, Len(s), LAMBDA k : PhoneEndAt(s, k) # 0)
    IN  IF i > Len(s) THEN NotFound ELSE SubSeq(s, i, PhoneEndAt(s, i) - 1)

extract_basic_info(t) ==
    [name |-> ExtractName(t), email |-> FirstEmail(t), phone |-> FirstPhone(t)]

-----------------------------------------------------------------------------
(* extract_education *)

MinEducationLine == 20

LongLine(line) == line # <<>> /\ Len(line) > MinEducationLine

extract_education(t) ==
    LET Match(m) == IF m.found THEN SelectSeq(StrippedLines(Strip(Group1(t, m))), LongLine)
                    ELSE <<>>
    IN  Match(edu_section_match(t))

-----------------------------------------------------------------------------
(* extract_experience *)

\* the string literals of extract_experience
S_in == <<"i","n">>
S_and == <<"a","n","d">>
S_or == <<"o","r">>
S_for == <<"f","o","r">>
S_with == <<"w","i","t","h">>
S_to == <<"t","o">>
S_Technologies == <<"T","e","c","h","n","o","l","o","g","i","e","s">>
S_Tech == <<"T","e","c","h">>
S_Intern == <<"I","n","t","e","r","n">>
S_Internship == <<"I","n","t","e","r","n","s","h","i","p">>
S_Summer_Internship == <<"S","u","m","m","e","r"," ","I","n","t","e","r","n","s","h","i","p">>
S_Current == <<"C","u","r","r","e","n","t">>
S_Software_Development_Intern == <<"S","o","f","t","w","a","r","e"," ","D","e","v","e","l","o","p","m","e","n","t"," ","I","n","t","e","r","n">>
S_ai == <<"a","i">>
S_data == <<"d","a","t","a">>
S_solution == <<"s","o","l","u","t","i","o","n">>
S_startup == <<"s","t","a","r","t","u","p">>
S_leadership == <<"l","e","a","d","e","r","s","h","i","p">>
S_Professional_Experience == <<"P","r","o","f","e","s","s","i","o","n","a","l"," ","E","x","p","e","r","i","e","n","c","e">>
S_Domain_Expertise == <<"D","o","m","a","i","n"," ","E","x","p","e","r","t","i","s","e">>
S_Unknown_Duration == <<"U","n","k","n","o","w","n"," ","D","u","r","a","t","i","o","n">>
S_Unknown_Role == <<"U","n","k","n","o","w","n"," ","R","o","l","e">>
S_Unknown_Company == <<"U","n","k","n","o","w","n"," ","C","o","m","p","a","n","y">>
S_experience == <<"e","x","p","e","r","i","e","n","c","e">>
S_work == <<"w","o","r","k">>
S_employment == <<"e","m","p","l","o","y","m","e","n","t">>
S_Various_Roles == <<"V","a","r","i","o","u","s"," ","R","o","l","e","s">>
S_Ongoing == <<"O","n","g","o","i","n","g">>
S_SwitchiT == <<"S","w","i","t","c","h","i","T">>
S_Celebal_Technologies == <<"C","e","l","e","b","a","l"," ","T","e","c","h","n","o","l","o","g","i","e","s">>
S_CipherSquare_Technologies == <<"C","i","p","h","e","r","S","q","u","a","r","e"," ","T","e","c","h","n","o","l","o","g","i","e","s">>
S__Technologies == <<" ","T","e","c","h","n","o","l","o","g","i","e","s">>
S_Corp == <<"C","o","r","p">>
S_Inc == <<"I","n","c">>
S_LLC == <<"L","L","C">>
S_Ltd == <<"L","t","d">>
S_Company == <<"C","o","m","p","a","n","y">>
S_Systems == <<"S","y","s","t","e","m","s">>
S_Solutions == <<"S","o","l","u","t","i","o","n","s">>
S_Group == <<"G","r","o","u","p">>
S_Present == <<"P","r","e","s","e","n","t">>

Entry(company, role, duration, details) ==
    [company |-> company, role |-> role, duration |-> duration, details |-> details]

MaxDetails == 5
MaxDescription == 3

\* ('•', '–', '-')
BulletChars == {<<"BULLET">>, <<"ENDASH">>, <<"-">>}

\* line[1:].strip()
AfterMarker(line) == Strip(Tail(line))

(* The skills/expertise format *)

\* any('in' in line.lower() or 'and' in line.lower() for line in lines[:2])
NarrativeTrigger(lines) ==
    \E i \in DOMAIN Take(lines, 2) :
        ContainsCI(lines[i], S_in) \/ ContainsCI(lines[i], S_and)

IsCompanyLine(line) ==
    /\ Contains(line, S_Technologies) \/ Contains(line, S_Tech)
    /\ Contains(line, S_Intern) \/ Contains(line, S_Internship)

\* company_line_idx + 1, 0 when no line is a company line
CompanyLineIdx(lines) ==
    LET First(hits) == IF hits = {} THEN 0 ELSE Min(hits)
    IN  First({i \in DOMAIN lines : IsCompanyLine(lines[i])})

NarrativeCompany(company_line) ==
    Strip(Remove(Remove(company_line, S_Summer_Internship), S_Internship))

NarrativeDuration(company_line) ==
    IF EndsWith(company_line, S_Summer_Internship) THEN S_Summer_Internship
    ELSE IF EndsWith(company_line, S_Internship) THEN S_Internship
    ELSE S_Current

NarrativeRole(lines, idx) ==
    LET Role(next_line) ==
            IF ~StartsWithAny(next_line, BulletChars) /\ Contains(next_line, S_Intern)
            THEN next_line ELSE S_Software_Development_Intern
    IN  IF idx + 1 <= Len(lines) THEN Role(Strip(lines[idx + 1]))
        ELSE S_Software_Development_Intern

\* One iteration of the loop that collects the bullet points: st.details and
\* st.current_point before the line, the result after it.  current_point = "" is no
\* open detail.
NarrativeStep(st, raw) ==
    LET Line(line) ==
            IF line = <<>> THEN st
            ELSE IF StartsWithAny(line, BulletChars)
            THEN [details |-> IF st.current_point # <<>>
                              THEN Append(st.details, st.current_point) ELSE st.details,
                  current_point |-> AfterMarker(line)]
            ELSE IF st.current_point # <<>>
            THEN [st EXCEPT !.current_point = st.current_point \o <<" ">> \o line]
            ELSE IF ~StartsWithAny(line, BulletChars) /\ ~Contains(line, S_Intern)
            THEN [st EXCEPT !.current_point = line]
            ELSE st
    IN  Line(Strip(raw))

RECURSIVE NarrativeLoop(_, _)
NarrativeLoop(lines, st) ==
    IF lines = <<>> THEN st ELSE NarrativeLoop(Tail(lines), NarrativeStep(st, Head(lines)))

\* details after the loop and the flush of the last open detail
NarrativeDetails(lines, idx) ==
    LET Flush(st) == IF st.current_point # <<>> THEN Append(st.details, st.current_point)
                     ELSE st.details
    IN  Flush(NarrativeLoop(Drop(lines, idx), [details |-> <<>>, current_point |-> <<>>]))

DanglingEnds == {S_and, S_or, S_for, S_with, S_to}

CleanDetail(detail) == Strip(CollapseSpace(detail))

SubstantialDetail(detail) ==
    LET Substantial(cleaned) == Len(cleaned) > 15 /\ ~EndsWithAny(cleaned, DanglingEnds)
    IN  Substantial(CleanDetail(detail))

NarrativeCleaned(details) ==
    LET Cleaned(kept) == [i \in DOMAIN kept |-> CleanDetail(kept[i])]
    IN  Cleaned(SelectSeq(details, SubstantialDetail))

ExpertiseKeywords == {S_ai, S_data, S_solution, S_startup, S_leadership}

IsExpertiseLine(line) ==
    /\ ContainsCI(line, S_in)
    /\ \E k \in ExpertiseKeywords : ContainsCI(line, k)

ExpertiseLines(lines) ==
    LET Collapsed(hits) == [i \in DOMAIN hits |-> CollapseSpace(Strip(hits[i]))]
    IN  Collapsed(SelectSeq(lines, IsExpertiseLine))

NarrativeExperience(lines) ==
    LET Structured(idx) ==
            IF idx = 0 THEN <<>>
            ELSE <<Entry(NarrativeCompany(lines[idx]),
                         NarrativeRole(lines, idx),
                         NarrativeDuration(lines[idx]),
                         Take(NarrativeCleaned(NarrativeDetails(lines, idx)), MaxDetails))>>
        Expertise(expertise_lines) ==
            IF expertise_lines = <<>> THEN <<>>
            ELSE <<Entry(S_Professional_Experience, S_Domain_Expertise, S_Current,
                         expertise_lines)>>
    IN  Structured(CompanyLineIdx(lines)) \o Expertise(ExpertiseLines(lines))

(* Format 1: the bullet point format with company info *)

BulletCompany(company_line) ==
    IF Contains(company_line, S_Summer_Internship)
    THEN Strip(Remove(company_line, S_Summer_Internship))
    ELSE IF Contains(company_line, S_Internship)
    THEN Strip(Remove(company_line, S_Internship))
    ELSE company_line

BulletDuration(company_line) ==
    IF Contains(company_line, S_Summer_Internship) THEN S_Summer_Internship
    ELSE IF Contains(company_line, S_Internship) THEN S_Internship
    ELSE S_Unknown_Duration

\* whether the line after the header at position i is taken as the role
HasRoleLine(lines, i) ==
    /\ i + 1 <= Len(lines)
    /\ ~StartsWith(lines[i + 1], <<"BULLET">>)
    /\ ~StartsWith(lines[i + 1], <<"ENDASH">>)

IsDashLine(line) == StartsWith(line, <<"ENDASH">>) \/ StartsWith(line, <<"-">>)

\* the inner while loop: the first position >= j that holds no dash line
RECURSIVE SkipDashLines(_, _)
SkipDashLines(lines, j) ==
    IF j <= Len(lines) /\ IsDashLine(lines[j]) THEN SkipDashLines(lines, j + 1) ELSE j

MinResponsibility == 15

LongResponsibility(line) ==
    LET Long(resp) == resp # <<>> /\ Len(resp) > MinResponsibility
    IN  Long(AfterMarker(line))

\* responsibilities out of the dash lines at positions j..k-1
Responsibilities(lines, j, k) ==
    LET Resps(kept) == [n \in DOMAIN kept |-> AfterMarker(kept[n])]
    IN  Resps(SelectSeq(SubSeq(lines, j, k - 1), LongResponsibility))

\* BulletStep without the i += 1 of line 453: a line that is no bullet header is
\* looked at again
BulletStepStuck(lines, st) ==
    IF StartsWith(lines[st.i], <<"BULLET">>)
    THEN [i |-> SkipDashLines(lines, st.i + (IF HasRoleLine(lines, st.i) THEN 2 ELSE 1)),
          experiences |-> st.experiences]
    ELSE st

\* One iteration of the outer while loop: st.i is the index i (counted from 1) and
\* st.experiences the list before the iteration, the result is both after it.
BulletStep(lines, st) ==
    LET Appended(company, role, duration, responsibilities) ==
            IF company # <<>> /\ role # <<>>
            THEN Append(st.experiences,
                        Entry(company, role, duration, Take(responsibilities, MaxDetails)))
            ELSE st.experiences
        Block(company_line, role, j, k) ==
            [i |-> k,
             experiences |-> Appended(BulletCompany(company_line), role,
                                      BulletDuration(company_line),
                                      Responsibilities(lines, j, k))]
        Header(company_line, role, j) == Block(company_line, role, j, SkipDashLines(lines, j))
        Line(i, role_line) ==
            IF StartsWith(lines[i], <<"BULLET">>)
            THEN Header(AfterMarker(lines[i]),
                        IF role_line THEN Strip(lines[i + 1]) ELSE S_Unknown_Role,
                        IF role_line THEN i + 2 ELSE i + 1)
            ELSE [st EXCEPT !.i = i + 1]
    IN  Line(st.i, HasRoleLine(lines, st.i))

RECURSIVE BulletWalk(_, _)
BulletWalk(lines, st) ==
    IF st.i <= Len(lines) THEN BulletWalk(lines, BulletStep(lines, st)) ELSE st

BulletExperience(lines) == BulletWalk(lines, [i |-> 1, experiences |-> <<>>]).experiences

(* Format 2: descriptive experience *)

\* not any(',' in line or '|' in line for line in lines[:3])
DescriptiveTrigger(lines) ==
    \A i \in DOMAIN Take(lines, 3) :
        ~Contains(lines[i], <<",">>) /\ ~Contains(lines[i], <<"|">>)

MinDescription == 10

DescriptionLine(line) ==
    /\ Len(line) > MinDescription
    /\ ~StartsWithAny(LowerStr(line), {S_experience, S_work, S_employment})

DescriptiveExperience(lines) ==
    LET Described(description_lines) ==
            IF description_lines = <<>> THEN <<>>
            ELSE <<Entry(S_Professional_Experience, S_Various_Roles, S_Ongoing,
                         Take(description_lines, MaxDescription))>>
    IN  Described(SelectSeq(lines, DescriptionLine))

(* Format 3: the structured format *)

CompanyLiterals == {S_SwitchiT, S_Celebal_Technologies, S_CipherSquare_Technologies}
CompanySuffixes ==
    {S_Corp, S_Inc, S_LLC, S_Ltd, S_Company, S_Systems, S_Solutions, S_Group}
\* [a-zA-Z\s]
LetterOrSpace == AlphaSet \cup SpaceSet

\* the lookahead of company_pattern at position p
CompanyAhead(s, p) ==
    \/ \E c \in CompanyLiterals : MatchAt(s, p, c)
    \/ /\ IsUpper(s[p])
       /\ \E n \in 1..RunLen(s, p + 1, LetterOrSpace) :
             \/ MatchAt(s, p + 1 + n, S__Technologies)
             \/ \E c \in CompanySuffixes : MatchAt(s, p + 1 + n, c)

\* re.split of a pattern that matches the empty string at the positions cuts (ascending):
\* the pieces of s from position i on
RECURSIVE CutAt(_, _, _)
CutAt(s, cuts, i) ==
    LET Cut(p) == <<SubSeq(s, i, p - 1)>> \o CutAt(s, cuts \ {p}, p)
        Later(later) == IF later = {} THEN <<SubSeq(s, i, Len(s))>> ELSE Cut(Min(later))
    IN  Later({p \in cuts : p >= i})

company_entries(exp_text) ==
    CutAt(exp_text, {p \in 1..Len(exp_text) : CompanyAhead(exp_text, p)}, 1)

\* the month-year pattern of the duration anchored at position i and at the end of s:
\* Month\s+\d{4}(?:\s*[–-]\s*(?:Present|Month\s+\d{4}))?$
MonthYearEnd(s, i) ==
    \* the positions after a "Month\s+\d{4}" that starts at position a
    LET AfterMonthYear(a) ==
            {b \in 1..(Len(s) + 1) :
                \E k \in DOMAIN MonthNames :
                    LET w == a + Len(MonthNames[k])
                        y == SkipSpace(s, w)
                    IN  /\ MatchAt(s, a, MonthNames[k])
                        /\ y > w
                        /\ RunLen(s, y, DigitSet) >= 4
                        /\ b = y + 4}
        \* the positions after "\s*[–-]\s*" that starts at position a
        AfterDash(a) ==
            LET d == SkipSpace(s, a)
            IN  IF d <= Len(s) /\ s[d] \in {"ENDASH", "-"}
                THEN (d + 1)..SkipSpace(s, d + 1) ELSE {}
    IN  \E b \in AfterMonthYear(i) :
            \/ b = Len(s) + 1
            \/ \E c \in AfterDash(b) :
                  \/ MatchAt(s, c, S_Present) /\ c + Len(S_Present) = Len(s) + 1
                  \/ Len(s) + 1 \in AfterMonthYear(c)

\* date_match.start() + 1, 0 when re.search finds nothing
DateMatchStart(rest) ==
    LET First(hits) == IF hits = {} THEN 0 ELSE Min(hits)
    IN  First({i \in 1..Len(rest) : MonthYearEnd(rest, i)})

MinEntry == 50

\* what the loop body appends for one entry of company_entries
StructuredEntry(raw) ==
    LET Long(resp) == resp # <<>> /\ Len(resp) > MinDescription
        IsResp(line) == /\ StartsWith(line, <<"BULLET">>) \/ StartsWith(line, <<"-">>)
                        /\ Long(AfterMarker(line))
        Resps(kept) == [n \in DOMAIN kept |-> AfterMarker(kept[n])]
        Appended(lines, company, role, duration) ==
            IF company # <<>> /\ role # <<>>
            THEN <<Entry(company, role, duration,
                         Take(Resps(SelectSeq(Tail(lines), IsResp)), MaxDetails))>>
            ELSE <<>>
        Role(rest, piped, d) ==
            IF Contains(rest, <<"|">>) THEN Strip(piped[1])
            ELSE IF d # 0 THEN Strip(SubSeq(rest, 1, d - 1))
            ELSE rest
        Duration(rest, piped, d) ==
            IF Contains(rest, <<"|">>) THEN Strip(piped[2])
            ELSE IF d # 0 THEN SubSeq(rest, d, Len(rest))
            ELSE S_Unknown_Duration
        Rest(lines, company, rest, piped, d) ==
            Appended(lines, company, Role(rest, piped, d), Duration(rest, piped, d))
        Comma(lines, company, rest) ==
            Rest(lines, company, rest, SplitOnce(rest, "|"), DateMatchStart(rest))
        Parts(lines, parts) == Comma(lines, Strip(parts[1]), Strip(parts[2]))
        First(lines, first_line, words) ==
            IF Contains(first_line, <<",">>) THEN Parts(lines, SplitOnce(first_line, ","))
            ELSE Appended(lines, IF words # <<>> THEN words[1] ELSE S_Unknown_Company,
                          S_Unknown_Role, S_Unknown_Duration)
        Lines(lines) == IF lines = <<>> THEN <<>>
                        ELSE First(lines, lines[1], Words(lines[1]))
        Stripped(entry) == IF Len(entry) > MinEntry THEN Lines(NonBlankLines(entry))
                           ELSE <<>>
    IN  Stripped(Strip(raw))

StructuredExperience(exp_text) ==
    LET Entries(entries) == Flatten([n \in DOMAIN entries |-> StructuredEntry(entries[n])])
    IN  Entries(company_entries(exp_text))

\* the lines of the section: [line.strip() for line in exp_text.split('\n') if line.strip()]
ExperienceLines(t) == NonBlankLines(Strip(Group1(t, exp_section_match(t))))

\* which branch parses the lines of the section
LinesFormat(lines) ==
    IF NarrativeTrigger(lines) THEN "narrative"
    ELSE IF lines # <<>> /\ StartsWith(lines[1], <<"BULLET">>) THEN "bullet"
    ELSE IF DescriptiveTrigger(lines) THEN "descriptive"
    ELSE "structured"

\* which branch of extract_experience produces the result
ExperienceFormat(t) ==
    IF ~exp_section_match(t).found THEN "none" ELSE LinesFormat(ExperienceLines(t))

extract_experience(t) ==
    LET Parsed(exp_text, lines, format) ==
            IF format = "narrative" THEN NarrativeExperience(lines)
            ELSE IF format = "bullet" THEN BulletExperience(lines)
            ELSE IF format = "descriptive" THEN DescriptiveExperience(lines)
            ELSE StructuredExperience(exp_text)
        Lines(exp_text, lines) == Parsed(exp_text, lines, LinesFormat(lines))
        Text(exp_text) == Lines(exp_text, NonBlankLines(exp_text))
        Match(m) == IF m.found THEN Text(Strip(Group1(t, m))) ELSE <<>>
    IN  Match(exp_section_match(t))

-----------------------------------------------------------------------------
(* extract_projects *)

\* the string literals of extract_projects
S_Not_specified == <<"N","o","t"," ","s","p","e","c","i","f","i","e","d">>
S_tool == <<"t","o","o","l">>
S_project_link == <<"p","r","o","j","e","c","t"," ","l","i","n","k">>
S_technologies_used == <<"t","e","c","h","n","o","l","o","g","i","e","s"," ","u","s","e","d">>
S_individual_project == <<"i","n","d","i","v","i","d","u","a","l"," ","p","r","o","j","e","c","t">>
S_development_project == <<"d","e","v","e","l","o","p","m","e","n","t"," ","p","r","o","j","e","c","t">>

\* Jan(?:uary)?|Feb(?:ruary)?|...|May|...|Dec(?:ember)?
MonthForms == {
    <<"J","a","n">>,
    <<"J","a","n","u","a","r","y">>,
    <<"F","e","b">>,
    <<"F","e","b","r","u","a","r","y">>,
    <<"M","a","r">>,
    <<"M","a","r","c","h">>,
    <<"A","p","r">>,
    <<"A","p","r","i","l">>,
    <<"M","a","y">>,
    <<"J","u","n">>,
    <<"J","u","n","e">>,
    <<"J","u","l">>,
    <<"J","u","l","y">>,
    <<"A","u","g">>,
    <<"A","u","g","u","s","t">>,
    <<"S","e","p">>,
    <<"S","e","p","t","e","m","b","e","r">>,
    <<"O","c","t">>,
    <<"O","c","t","o","b","e","r">>,
    <<"N","o","v">>,
    <<"N","o","v","e","m","b","e","r">>,
    <<"D","e","c">>,
    <<"D","e","c","e","m","b","e","r">>}

\* re.split(r'(?m)^[–\-]\s+', s): a match starts at a line start that holds a dash
\* followed by whitespace, and takes the whole whitespace run
EntryMarkAt(s, p) ==
    /\ p = 1 \/ s[p - 1] = "\n"
    /\ s[p] \in {"ENDASH", "-"}
    /\ p + 1 <= Len(s)
    /\ IsSpace(s[p + 1])

\* the pieces of s from position i on
RECURSIVE SplitEntries(_, _)
SplitEntries(s, i) ==
    LET Cut(p) == IF p > Len(s) THEN <<SubSeq(s, i, Len(s))>>
                  ELSE <<SubSeq(s, i, p - 1)>> \o SplitEntries(s, SkipSpace(s, p + 1))
    IN  IF i > Len(s) THEN <<SubSeq(s, i, Len(s))>>
        ELSE Cut(FirstPos(i, Len(s), LAMBDA k : EntryMarkAt(s, k)))

\* [entry.strip() for entry in project_entries if entry.strip()]
project_entries(projects_text) ==
    LET Stripped(pieces) == SelectSeq([i \in DOMAIN pieces |-> Strip(pieces[i])], NonEmpty)
    IN  Stripped(SplitEntries(projects_text, 1))

\* the position after "Month[.\s]+\d{4}" that starts at position a, 0 when it does not
\* match there
MonthYearAt(s, a) ==
    LET Year(w, y) == IF y > w /\ RunLen(s, y, DigitSet) >= 4 THEN {y + 4} ELSE {}
        Sep(w) == Year(w, IF w > Len(s) THEN w
                          ELSE FirstPos(w, Len(s), LAMBDA k : ~(s[k] = "." \/ IsSpace(s[k]))))
        Ends(f) == IF MatchAt(s, a, f) THEN Sep(a + Len(f)) ELSE {}
        Last(ends) == IF ends = {} THEN 0 ELSE Max(ends)
    IN  Last(UNION {Ends(f) : f \in MonthForms})

\* the duration pattern tried at position a: the position after the match, the range
\* "\s*[-–]\s*(?:Present|Month[.\s]+\d{4})" taken when it matches; 0 for no match
DurationEndAt(s, a) ==
    LET Or(b, e) == IF e # 0 THEN e ELSE b
        To(b, c) == IF MatchAt(s, c, S_Present) THEN c + Len(S_Present)
                    ELSE IF c <= Len(s) THEN Or(b, MonthYearAt(s, c))
                    ELSE b
        Dash(b, d) == IF d <= Len(s) /\ s[d] \in {"-", "ENDASH"}
                      THEN To(b, SkipSpace(s, d + 1)) ELSE b
        From(b) == IF b = 0 THEN 0 ELSE Dash(b, SkipSpace(s, b))
    IN  IF a < 1 \/ a > Len(s) THEN 0 ELSE From(MonthYearAt(s, a))

\* duration_match.start() + 1, Len(s)+1 when re.search finds nothing
DurationStart(s) == FirstPos(1, Len(s), LAMBDA k : DurationEndAt(s, k) # 0)

\* re.sub(r'\s*[–\-]\s*$', '', title)
StripTrailingDash(title) ==
    LET End(e) == IF e >= 1 /\ title[e] \in {"ENDASH", "-"}
                  THEN SubSeq(title, 1, SkipSpaceBack(title, e - 1)) ELSE title
    IN  End(SkipSpaceBack(title, Len(title)))

ProjectTitle(first_line) ==
    LET Title(d) == IF d <= Len(first_line) THEN Strip(SubSeq(first_line, 1, d - 1))
                    ELSE first_line
    IN  StripTrailingDash(Title(DurationStart(first_line)))

ProjectDuration(first_line) ==
    LET Duration(d) ==
            IF d <= Len(first_line)
            THEN SubSeq(first_line, d, DurationEndAt(first_line, d) - 1)
            ELSE S_Not_specified
    IN  Duration(DurationStart(first_line))

\* ('∗', '•', '-', '–', '*')
ProjectBullets == {<<"ASTOP">>, <<"BULLET">>, <<"-">>, <<"ENDASH">>, <<"*">>}

\* org: "" when the second line is missing or starts with a bullet
ProjectOrg(lines) ==
    IF Len(lines) > 1 /\ ~StartsWithAny(lines[2], ProjectBullets) THEN Strip(lines[2])
    ELSE <<>>

MetadataPrefixes == {S_tool, S_project_link, S_technologies_used}
GenericTitles == {S_individual_project, S_development_project}

\* len(d) > 15 and not any(d.lower().startswith(x) for x in ('tool', ...))
ContentDetail(d) == Len(d) > 15 /\ ~StartsWithAny(LowerStr(d), MetadataPrefixes)

\* One iteration of the loop that collects the project details
ProjectStep(st, line, org) ==
    IF line = org THEN st
    ELSE IF StartsWithAny(line, ProjectBullets)
    THEN [details |-> IF st.current_detail # <<>> /\ ContentDetail(st.current_detail)
                      THEN Append(st.details, st.current_detail) ELSE st.details,
          current_detail |-> AfterMarker(line)]
    ELSE IF st.current_detail # <<>>
    THEN [st EXCEPT !.current_detail = st.current_detail \o <<" ">> \o Strip(line)]
    ELSE st

RECURSIVE ProjectLoop(_, _, _)
ProjectLoop(lines, st, org) ==
    IF lines = <<>> THEN st
    ELSE ProjectLoop(Tail(lines), ProjectStep(st, Head(lines), org), org)

\* details after the loop and the flush of the last detail
ProjectDetails(lines) ==
    LET Flush(st) == IF st.current_detail # <<>> /\ ContentDetail(st.current_detail)
                     THEN Append(st.details, st.current_detail) ELSE st.details
    IN  Flush(ProjectLoop(Tail(lines), [details |-> <<>>, current_detail |-> <<>>],
                          ProjectOrg(lines)))

\* re.sub(r'^[∗•\-–\*]\s*', '', detail), then the whitespace cleanup
CleanProjectDetail(detail) ==
    Strip(CollapseSpace(IF StartsWithAny(detail, ProjectBullets)
                        THEN SubSeq(detail, SkipSpace(detail, 2), Len(detail))
                        ELSE detail))

KeptProjectDetail(detail) ==
    LET Kept(cleaned) == cleaned # <<>> /\ ContentDetail(cleaned)
    IN  Kept(CleanProjectDetail(detail))

ProjectCleaned(details) ==
    LET Cleaned(kept) == [i \in DOMAIN kept |-> CleanProjectDetail(kept[i])]
    IN  Cleaned(SelectSeq(details, KeptProjectDetail))

MaxProjectDetails == 4
MinTitle == 3

\* what the loop body appends for one entry; organization = "" is a dict without the key
ProjectEntry(entry) ==
    LET Meaningful(org) ==
            IF /\ org # <<>>
               /\ \A x \in MetadataPrefixes \cup GenericTitles : ~ContainsCI(org, x)
            THEN org ELSE <<>>
        Data(lines, title) ==
            IF /\ title # <<>>
               /\ Len(title) > MinTitle
               /\ \A x \in GenericTitles : ~ContainsCI(title, x)
            THEN <<[title |-> title,
                    duration |-> ProjectDuration(lines[1]),
                    details |-> Take(ProjectCleaned(ProjectDetails(lines)),
                                     MaxProjectDetails),
                    organization |-> Meaningful(ProjectOrg(lines))]>>
            ELSE <<>>
        Lines(lines) == IF lines = <<>> THEN <<>> ELSE Data(lines, ProjectTitle(lines[1]))
    IN  Lines(NonBlankLines(entry))

extract_projects(t) ==
    LET Entries(entries) == Flatten([i \in DOMAIN entries |-> ProjectEntry(entries[i])])
        Match(m) == IF m.found THEN Entries(project_entries(Strip(Group1(t, m)))) ELSE <<>>
    IN  Match(projects_section_match(t))

-----------------------------------------------------------------------------
(* Links: extract_links_from_pdf, extract_links_from_text, extract_links,
   get_github_profile *)

S_http == <<"h","t","t","p">>
S_colon_slashes == <<":","/","/">>
S_www == <<"w","w","w",".">>
S_github_com == <<"g","i","t","h","u","b",".","c","o","m">>
S_github_com_slash == <<"g","i","t","h","u","b",".","c","o","m","/">>
S_linkedin_com_slash == <<"l","i","n","k","e","d","i","n",".","c","o","m","/">>
S_linkedin_com_in == <<"l","i","n","k","e","d","i","n",".","c","o","m","/","i","n">>
S_in_slash == <<"i","n","/">>
S_profile_slash == <<"p","r","o","f","i","l","e","/">>

\* extract_links_from_pdf: uris are the "uri" values of the link annotations in page order
extract_links_from_pdf(uris) ==
    LET IsGithub(url) == Contains(url, S_github_com)
        IsLinkedin(url) ==
            /\ ~Contains(url, S_github_com)
            /\ Contains(url, S_linkedin_com_in) \/ Contains(url, S_linkedin_com_slash)
    IN  [github |-> SelectSeq(uris, IsGithub), linkedin |-> SelectSeq(uris, IsLinkedin)]

\* [A-Za-z0-9_-]
UserChars == AlnumSet \cup {"_", "-"}

\* https?://(?:www\.)?HOST/PATH[A-Za-z0-9_-]+/?(?!\S) tried at position i, where paths are
\* the alternatives of PATH: the position after the match, 0 when it does not match.
\* The user name is the whole run; the match takes a / that follows it; what follows
\* the match is whitespace or the end.
ProfileUrlEndAt(s, i, host, paths) ==
    LET a == i + Len(S_http) + (IF MatchAt(s, i + Len(S_http), <<"s">>) THEN 1 ELSE 0)
        b == a + Len(S_colon_slashes)
        c == b + (IF MatchAt(s, b, S_www) THEN Len(S_www) ELSE 0)
        d == c + Len(host)
        Ends(path) ==
            LET u == d + Len(path)
                n == RunLen(s, u, UserChars)
                e == u + n + (IF MatchAt(s, u + n, <<"/">>) THEN 1 ELSE 0)
            IN  IF /\ MatchAt(s, d, path)
                   /\ n >= 1
                   /\ e > Len(s) \/ IsSpace(s[e])
                THEN {e} ELSE {}
        ends == UNION {Ends(path) : path \in paths}
    IN  IF /\ MatchAt(s, i, S_http)
           /\ MatchAt(s, a, S_colon_slashes)
           /\ MatchAt(s, c, host)
           /\ ends # {}
        THEN Max(ends) ELSE 0

\* re.findall of such a pattern from position i on
RECURSIVE FindAllUrls(_, _, _, _)
FindAllUrls(s, i, host, paths) ==
    LET j == FirstPos(i, Len(s), LAMBDA k : ProfileUrlEndAt(s, k, host, paths) # 0)
        e == ProfileUrlEndAt(s, j, host, paths)
    IN  IF i > Len(s) \/ j > Len(s) THEN <<>>
        ELSE <<SubSeq(s, j, e - 1)>> \o FindAllUrls(s, e, host, paths)

extract_links_from_text(t) ==
    [github |-> FindAllUrls(t, 1, S_github_com_slash, {<<>>}),
     linkedin |-> FindAllUrls(t, 1, S_linkedin_com_slash, {S_in_slash, S_profile_slash})]

\* the lists that hold every element of the set S once
Orders(S) ==
    {f \in [1..Cardinality(S) -> S] : \A i, j \in 1..Cardinality(S) : f[i] = f[j] => i = j}

\* a + b without the set
ListWithoutSet(a, b) == {a \o b}

\* list(set(a + b)): the set's iteration order follows the hashes of the strings, which
\* Python seeds anew in every process; any order is possible
ListOfSet(a, b) == Orders(Range(a \o b))

\* the pattern without its end anchor: r"https?://github\.com/([^/]+)"
IsProfileLinkUnanchored(link) ==
    LET a == 1 + Len(S_http) + (IF MatchAt(link, 1 + Len(S_http), <<"s">>) THEN 1 ELSE 0)
        b == a + Len(S_colon_slashes)
        c == b + Len(S_github_com_slash)
    IN  /\ MatchAt(link, 1, S_http)
        /\ MatchAt(link, a, S_colon_slashes)
        /\ MatchAt(link, b, S_github_com_slash)
        /\ c <= Len(link)
        /\ link[c] # "/"

\* re.match(r"https?://github\.com/([^/]+)$", link)
IsProfileLink(link) ==
    LET a == 1 + Len(S_http) + (IF MatchAt(link, 1 + Len(S_http), <<"s">>) THEN 1 ELSE 0)
        b == a + Len(S_colon_slashes)
        c == b + Len(S_github_com_slash)
    IN  /\ MatchAt(link, 1, S_http)
        /\ MatchAt(link, a, S_colon_slashes)
        /\ MatchAt(link, b, S_github_com_slash)
        /\ c <= Len(link)
        /\ \A k \in c..Len(link) : link[k] # "/"

\* None, told apart from every link: the pattern matches no empty string
None == <<>>

\* the first link that matches, None when no link does
get_github_profile(links) ==
    LET i == FirstPos(1, Len(links), LAMBDA k : IsProfileLink(links[k]))
    IN  IF i > Len(links) THEN None ELSE links[i]

-----------------------------------------------------------------------------
(* The documents the runs are given *)

\* 'JOHN SMITH DOE'
N_caps == <<"J","O","H","N"," ","S","M","I","T","H"," ","D","O","E">>
\* '  Mary Ann Lee '
N_title == <<" "," ","M","a","r","y"," ","A","n","n"," ","L","e","e"," ">>
\* 'J. R. Smith, Jr'
N_punct == <<"J","."," ","R","."," ","S","m","i","t","h",","," ","J","r">>
\* 'john smith'
N_lower == <<"j","o","h","n"," ","s","m","i","t","h">>
\* 'A B C D E'
N_five == <<"A"," ","B"," ","C"," ","D"," ","E">>
\* 'John Smith3'
N_digit == <<"J","o","h","n"," ","S","m","i","t","h","3">>
\* 'John'
N_one == <<"J","o","h","n">>
\* ''
P_blank == <<>>
\* 'Resume'
P_resume == <<"R","e","s","u","m","e">>
\* 'mail: j.doe@mail.example.org, +91-9876543210'
P_contact == <<"m","a","i","l",":"," ","j",".","d","o","e","@","m","a","i","l",".","e","x","a",
    "m","p","l","e",".","o","r","g",","," ","+","9","1","-","9","8","7","6","5","4","3","2","1",
    "0">>
\* 'SKILLS\nLanguages Python | C++ | SQL'
B_skills == <<"S","K","I","L","L","S","\n","L","a","n","g","u","a","g","e","s"," ","P","y","t",
    "h","o","n"," ","|"," ","C","+","+"," ","|"," ","S","Q","L">>
\* 'TECHNICAL SKILLS\nDesign UI | User Experience | Figma'
B_design == <<"T","E","C","H","N","I","C","A","L"," ","S","K","I","L","L","S","\n","D","e","s",
    "i","g","n"," ","U","I"," ","|"," ","U","s","e","r"," ","E","x","p","e","r","i","e","n","c",
    "e"," ","|"," ","F","i","g","m","a">>
\* 'EXPERIENCE\n<BULLET> Acme Technologies Summer Internship\nSoftware Engineer Intern\n<ENDASH> Built a pipeline that reduced latency by 40%'
B_scenario == <<"E","X","P","E","R","I","E","N","C","E","\n","BULLET"," ","A","c","m","e"," ",
    "T","e","c","h","n","o","l","o","g","i","e","s"," ","S","u","m","m","e","r"," ","I","n","t",
    "e","r","n","s","h","i","p","\n","S","o","f","t","w","a","r","e"," ","E","n","g","i","n",
    "e","e","r"," ","I","n","t","e","r","n","\n","ENDASH"," ","B","u","i","l","t"," ","a"," ",
    "p","i","p","e","l","i","n","e"," ","t","h","a","t"," ","r","e","d","u","c","e","d"," ","l",
    "a","t","e","n","c","y"," ","b","y"," ","4","0","%">>
\* 'EXPERIENCE\n<BULLET> XYZ Labs\nDeveloper\n<ENDASH> Wrote tests for the core product'
B_bullet == <<"E","X","P","E","R","I","E","N","C","E","\n","BULLET"," ","X","Y","Z"," ","L","a",
    "b","s","\n","D","e","v","e","l","o","p","e","r","\n","ENDASH"," ","W","r","o","t","e"," ",
    "t","e","s","t","s"," ","f","o","r"," ","t","h","e"," ","c","o","r","e"," ","p","r","o","d",
    "u","c","t">>
\* 'PROJECTS\n- Resume Parser Jan 2024 - Present\n<ASTOP> Parses resumes with Python'
B_projects == <<"P","R","O","J","E","C","T","S","\n","-"," ","R","e","s","u","m","e"," ","P",
    "a","r","s","e","r"," ","J","a","n"," ","2","0","2","4"," ","-"," ","P","r","e","s","e","n",
    "t","\n","ASTOP"," ","P","a","r","s","e","s"," ","r","e","s","u","m","e","s"," ","w","i",
    "t","h"," ","P","y","t","h","o","n">>
\* 'EDUCATION\nB.Tech, Computer Science, 2020'
B_education == <<"E","D","U","C","A","T","I","O","N","\n","B",".","T","e","c","h",","," ","C",
    "o","m","p","u","t","e","r"," ","S","c","i","e","n","c","e",","," ","2","0","2","0">>
\* 'I have project experience in data analysis'
B_prose == <<"I"," ","h","a","v","e"," ","p","r","o","j","e","c","t"," ","e","x","p","e","r",
    "i","e","n","c","e"," ","i","n"," ","d","a","t","a"," ","a","n","a","l","y","s","i","s">>

\* the sequences of at most n distinct elements of the set S
DistinctSeqs(S, n) ==
    UNION {{f \in [1..k -> S] : \A i, j \in 1..k : f[i] = f[j] => i = j} : k \in 0..n}

\* [x] * n
Copies(x, n) == [i \in 1..n |-> x]

NL == <<"\n">>

\* Documents that open with pad lines and then hold one or two candidate name lines
MaxPad == 10
PadLines == {P_blank, P_resume, P_contact}
NameLines == {N_caps, N_title, N_punct, N_lower, N_five, N_digit, N_one}
NameDocs ==
    {Join(Copies(p, n) \o c, NL) :
        p \in PadLines, n \in 0..MaxPad, c \in DistinctSeqs(NameLines, 2) \ {<<>>}}

\* Documents made of sections and prose, in every order
MaxBlocks == 3
Blocks == {B_skills, B_design, B_scenario, B_bullet, B_projects, B_education, B_prose}
SectionDocs == {Join(bs, NL) : bs \in DistinctSeqs(Blocks, MaxBlocks) \ {<<>>}}

\* Documents with one section that holds n items or n detail lines
MaxItems == 16
MaxLines == 6

\* 'SKILLS\nTools '
C_tools == <<"S","K","I","L","L","S","\n","T","o","o","l","s"," ">>
\* ' | '
C_pipe == <<" ","|"," ">>
\* 'EXPERIENCE\nAcme Tech Internship\nBackend Intern'
C_narrative == <<"E","X","P","E","R","I","E","N","C","E","\n","A","c","m","e"," ","T","e","c",
    "h"," ","I","n","t","e","r","n","s","h","i","p","\n","B","a","c","k","e","n","d"," ","I",
    "n","t","e","r","n">>
\* '<BULLET> Built the billing service of the platform'
C_point == <<"BULLET"," ","B","u","i","l","t"," ","t","h","e"," ","b","i","l","l","i","n","g",
    " ","s","e","r","v","i","c","e"," ","o","f"," ","t","h","e"," ","p","l","a","t","f","o","r",
    "m">>
\* 'EXPERIENCE'
C_experience == <<"E","X","P","E","R","I","E","N","C","E">>
\* 'Work in data engineering'
C_expertise == <<"W","o","r","k"," ","i","n"," ","d","a","t","a"," ","e","n","g","i","n","e",
    "e","r","i","n","g">>
\* 'EXPERIENCE\n<BULLET> XYZ Labs\nDeveloper'
C_bullet == <<"E","X","P","E","R","I","E","N","C","E","\n","BULLET"," ","X","Y","Z"," ","L","a",
    "b","s","\n","D","e","v","e","l","o","p","e","r">>
\* '<ENDASH> Wrote tests for the core product'
C_dash == <<"ENDASH"," ","W","r","o","t","e"," ","t","e","s","t","s"," ","f","o","r"," ","t",
    "h","e"," ","c","o","r","e"," ","p","r","o","d","u","c","t">>
\* 'EXPERIENCE\nFoo Corp, Developer | 2020'
C_structured == <<"E","X","P","E","R","I","E","N","C","E","\n","F","o","o"," ","C","o","r","p",
    ","," ","D","e","v","e","l","o","p","e","r"," ","|"," ","2","0","2","0">>
\* '- Wrote tests for the core product'
C_hyphen == <<"-"," ","W","r","o","t","e"," ","t","e","s","t","s"," ","f","o","r"," ","t","h",
    "e"," ","c","o","r","e"," ","p","r","o","d","u","c","t">>
\* 'Wrote tests for the core product'
C_description == <<"W","r","o","t","e"," ","t","e","s","t","s"," ","f","o","r"," ","t","h","e",
    " ","c","o","r","e"," ","p","r","o","d","u","c","t">>
\* 'PROJECTS\n- Resume Parser Jan 2024 - Present'
C_project == <<"P","R","O","J","E","C","T","S","\n","-"," ","R","e","s","u","m","e"," ","P","a",
    "r","s","e","r"," ","J","a","n"," ","2","0","2","4"," ","-"," ","P","r","e","s","e","n",
    "t">>
\* '<ASTOP> Parses resumes with Python'
C_star == <<"ASTOP"," ","P","a","r","s","e","s"," ","r","e","s","u","m","e","s"," ","w","i","t",
    "h"," ","P","y","t","h","o","n">>

DigitChars == <<"0","1","2","3","4","5","6","7","8","9">>
\* the item named "s00", "s01", ...
ItemName(k) == <<"s", DigitChars[(k \div 10) + 1], DigitChars[(k % 10) + 1]>>

ItemDocs == {C_tools \o Join([k \in 1..n |-> ItemName(k)], C_pipe) : n \in 0..MaxItems}

LineKinds ==
    {<<C_narrative, C_point>>, <<C_experience, C_expertise>>, <<C_bullet, C_dash>>,
     <<C_structured, C_hyphen>>, <<C_experience, C_description>>, <<C_project, C_star>>}
LineDocs == {Join(<<k[1]>> \o Copies(k[2], n), NL) : k \in LineKinds, n \in 0..MaxLines}

Docs == NameDocs \cup SectionDocs \cup ItemDocs \cup LineDocs

\* candidate URLs
\* 'https://github.com/alice'
U_alice == <<"h","t","t","p","s",":","/","/","g","i","t","h","u","b",".","c","o","m","/","a",
    "l","i","c","e">>
\* 'http://github.com/bob'
U_bob == <<"h","t","t","p",":","/","/","g","i","t","h","u","b",".","c","o","m","/","b","o","b">>
\* 'https://github.com/alice/repo1'
U_alice_repo1 == <<"h","t","t","p","s",":","/","/","g","i","t","h","u","b",".","c","o","m","/",
    "a","l","i","c","e","/","r","e","p","o","1">>
\* 'http://github.com/bob/'
U_bob_slash == <<"h","t","t","p",":","/","/","g","i","t","h","u","b",".","c","o","m","/","b",
    "o","b","/">>
\* 'https://www.github.com/carol'
U_www_carol == <<"h","t","t","p","s",":","/","/","w","w","w",".","g","i","t","h","u","b",".",
    "c","o","m","/","c","a","r","o","l">>
\* 'https://linkedin.com/in/alice'
U_in_alice == <<"h","t","t","p","s",":","/","/","l","i","n","k","e","d","i","n",".","c","o","m",
    "/","i","n","/","a","l","i","c","e">>
\* 'https://www.linkedin.com/in/bob'
U_in_bob == <<"h","t","t","p","s",":","/","/","w","w","w",".","l","i","n","k","e","d","i","n",
    ".","c","o","m","/","i","n","/","b","o","b">>
\* 'Profiles:'
T_profiles == <<"P","r","o","f","i","l","e","s",":">>

\* The link annotations of the document and the URLs written in its text: at most
\* MaxLinks candidates in all
MaxLinks == 3
Urls == {U_alice, U_bob, U_alice_repo1, U_bob_slash, U_www_carol, U_in_alice, U_in_bob}
UrlSeqs(n) == UNION {[1..k -> Urls] : k \in 0..n}
LinkInputs ==
    UNION {{<<uris, Join(<<T_profiles>> \o words, <<" ">>)>> :
               uris \in [1..k -> Urls], words \in UrlSeqs(MaxLinks - k)} : k \in 0..MaxLinks}

-----------------------------------------------------------------------------
(* The state machine *)

\* the number of times the program is run on the same document
Runs == 2

\* a JSON value: its Python type and, for a dict, its items
JsonValue(type, value) == [type |-> type, value |-> value]

\* {"error": message}
ErrorResult(message) == JsonValue("dict", [error |-> message])

\* The fallback pipeline: the state of __main__ when ats_extractor has returned an
\* error, for a document without links
Init ==
    /\ text \in Docs
    /\ pdf_links = <<>>
    /\ pc = "extract_basic_info"
    /\ run = 1
    /\ github_links = <<>>
    /\ linkedin_links = <<>>
    /\ github_profile = None
    /\ basic_info = <<>>
    /\ skills = <<>>
    /\ experience = <<>>
    /\ projects = <<>>
    /\ education = <<>>
    /\ printed = <<>>
    /\ exp_lines = <<>>
    /\ line_idx = 1
    /\ exp_details = <<>>
    /\ open_point = <<>>
    /\ attempt = 0
    /\ requests = <<>>
    /\ parsed_data = ErrorResult("Request failed")

\* The link pipeline: the state of __main__ when extract_text has returned
InitLinks ==
    /\ \E d \in LinkInputs : pdf_links = d[1] /\ text = d[2]
    /\ pc = "extract_links"
    /\ run = 1
    /\ github_links = <<>>
    /\ linkedin_links = <<>>
    /\ github_profile = None
    /\ basic_info = <<>>
    /\ skills = <<>>
    /\ experience = <<>>
    /\ projects = <<>>
    /\ education = <<>>
    /\ printed = <<>>
    /\ exp_lines = <<>>
    /\ line_idx = 1
    /\ exp_details = <<>>
    /\ open_point = <<>>
    /\ attempt = 0
    /\ requests = <<>>
    /\ parsed_data = JsonValue("unset", <<>>)

\* github_links, linkedin_links = extract_links(file_path)
ExtractLinks ==
    /\ pc = "extract_links"
    /\ github_links' \in ListOfSet(extract_links_from_pdf(pdf_links).github,
                                   extract_links_from_text(text).github)
    /\ linkedin_links' \in ListOfSet(extract_links_from_pdf(pdf_links).linkedin,
                                     extract_links_from_text(text).linkedin)
    /\ pc' = "get_github_profile"
    /\ UNCHANGED <<text, pdf_links, run, github_profile, basic_info, skills, experience,
                   projects, education, printed, loopVars, apiVars>>

\* github_profile = get_github_profile(github_links)
GetGithubProfile ==
    /\ pc = "get_github_profile"
    /\ github_profile' = get_github_profile(github_links)
    /\ pc' = "print"
    /\ UNCHANGED <<text, pdf_links, run, github_links, linkedin_links, basic_info, skills,
                   experience, projects, education, printed, loopVars, apiVars>>

\* parsed_data["github"] and parsed_data["linkedin"], the same after either extraction
LinkFields ==
    [github |-> IF github_profile # None THEN github_profile ELSE NotFound,
     linkedin |-> IF linkedin_links # <<>> THEN linkedin_links[1] ELSE NotFound]

\* the link fields of the record the run prints
PrintLinks ==
    /\ pc = "print"
    /\ printed' = Append(printed, LinkFields)
    /\ pc' = "exit"
    /\ UNCHANGED <<text, pdf_links, run, github_links, linkedin_links, github_profile,
                   basic_info, skills, experience, projects, education, loopVars, apiVars>>

\* the program is run again on the same file
Rerun ==
    /\ pc = "exit"
    /\ run < Runs
    /\ run' = run + 1
    /\ pc' = "extract_links"
    /\ github_links' = <<>>
    /\ linkedin_links' = <<>>
    /\ github_profile' = None
    /\ UNCHANGED <<text, pdf_links, basic_info, skills, experience, projects, education,
                   printed, loopVars, apiVars>>

\* basic_info = extract_basic_info(extracted_text)
ExtractBasicInfo ==
    /\ pc = "extract_basic_info"
    /\ basic_info' = <<extract_basic_info(text)>>
    /\ pc' = "extract_skills"
    /\ UNCHANGED <<text, pdf_links, run, github_links, linkedin_links, github_profile,
                   skills, experience, projects, education, printed, loopVars, apiVars>>

\* skills = extract_skills(extracted_text)
ExtractSkills ==
    /\ pc = "extract_skills"
    /\ skills' = extract_skills(text)
    /\ pc' = "extract_experience"
    /\ UNCHANGED <<text, pdf_links, run, github_links, linkedin_links, github_profile,
                   basic_info, experience, projects, education, printed, loopVars, apiVars>>

\* experience = extract_experience(extracted_text)
ExtractExperience ==
    /\ pc = "extract_experience"
    /\ experience' = extract_experience(text)
    /\ pc' = "extract_projects"
    /\ UNCHANGED <<text, pdf_links, run, github_links, linkedin_links, github_profile,
                   basic_info, skills, projects, education, printed, loopVars, apiVars>>

\* projects = extract_projects(extracted_text)
ExtractProjects ==
    /\ pc = "extract_projects"
    /\ projects' = extract_projects(text)
    /\ pc' = "extract_education"
    /\ UNCHANGED <<text, pdf_links, run, github_links, linkedin_links, github_profile,
                   basic_info, skills, experience, education, printed, loopVars, apiVars>>

\* education = extract_education(extracted_text)
ExtractEducation ==
    /\ pc = "extract_education"
    /\ education' = extract_education(text)
    /\ pc' = "assemble"
    /\ UNCHANGED <<text, pdf_links, run, github_links, linkedin_links, github_profile,
                   basic_info, skills, experience, projects, printed, loopVars, apiVars>>

\* parsed_data of the fallback branch, printed
Assemble ==
    /\ pc = "assemble"
    /\ printed' = Append(printed,
                         [name |-> basic_info[1].name,
                          email |-> basic_info[1].email,
                          phone |-> basic_info[1].phone,
                          linkedin |-> LinkFields.linkedin,
                          github |-> LinkFields.github,
                          skills |-> skills,
                          experience |-> experience,
                          projects |-> projects,
                          education |-> education,
                          extraction_method |-> "fallback"])
    /\ pc' = "exit"
    /\ UNCHANGED <<text, pdf_links, run, github_links, linkedin_links, github_profile,
                   basic_info, skills, experience, projects, education, loopVars, apiVars>>

Next ==
    \/ ExtractBasicInfo
    \/ ExtractSkills
    \/ ExtractExperience
    \/ ExtractProjects
    \/ ExtractEducation
    \/ Assemble

NextLinks ==
    \/ ExtractLinks
    \/ GetGithubProfile
    \/ PrintLinks
    \/ Rerun

Spec == Init /\ [][Next]_vars

SpecLinks == InitLinks /\ [][NextLinks]_vars

-----------------------------------------------------------------------------
(* The primary path: ats_extractor and the branch of __main__ on its result *)

\* retries = 3
retries == 3

\* What one pass through the body of the retry loop ends with: requests.post raises
\* Timeout or another RequestException, raise_for_status raises HTTPError,
\* response.json() raises on a body that is not JSON, the subscripts or .strip() raise
\* on a body without choices[0].message.content, json.loads raises on the content, or
\* json.loads returns the parsed value
Outcomes ==
    {"timeout", "connection_error", "http_error", "invalid_body", "missing_fields",
     "invalid_json", "parsed"}

\* The values json.loads returns for the answers of the service: records with and
\* without the keys the program sets, an object with the key 'error', and values that
\* are no object
AiValues ==
    {JsonValue("dict", [name |-> "Ann Lee", skills |-> "Python"]),
     JsonValue("dict", [name |-> "Ann Lee", github |-> "none", extraction_method |-> "fallback"]),
     JsonValue("dict", [error |-> "no resume found"]),
     JsonValue("list", <<>>),
     JsonValue("str", <<>>),
     JsonValue("null", <<>>)}

\* The messages of the except clauses an exception of the loop body can reach.  Timeout,
\* ConnectionError and HTTPError are RequestExceptions; the exception of response.json()
\* is a json.JSONDecodeError or not, depending on the installed requests version.
Handlers(outcome) ==
    IF outcome = "invalid_json" THEN {"API returned invalid JSON"}
    ELSE IF outcome = "invalid_body"
    THEN {"API returned invalid JSON", "Request failed", "Processing failed"}
    ELSE IF outcome = "missing_fields" THEN {"Processing failed"}
    ELSE {"Request failed"}

\* Retried with the handler on every exception: except Exception: if attempt < ...
RetriedOnFailure(outcome, n) == outcome # "parsed" /\ n < retries - 1

\* except requests.exceptions.Timeout: if attempt < retries - 1: continue
Retried(outcome, n) == outcome = "timeout" /\ n < retries - 1

\* IsErrorResult without the test for the key: isinstance(parsed_data, dict)
IsDictResult(data) == data.type = "dict"

\* isinstance(parsed_data, dict) and "error" in parsed_data
IsErrorResult(data) == data.type = "dict" /\ "error" \in DOMAIN data.value

\* d[k] = v
SetItem(d, k, v) == [key \in DOMAIN d \cup {k} |-> IF key = k THEN v ELSE d[key]]

\* the state of __main__ when get_github_profile has returned
MainDocs == {Join(<<N_caps, b>>, NL) : b \in Blocks}
MainLinks == {<<>>, <<U_alice_repo1, U_alice>>}

InitMain ==
    /\ text \in MainDocs
    /\ pdf_links = <<>>
    /\ pc = "load_api_key"
    /\ run = 1
    /\ github_links \in MainLinks
    /\ linkedin_links \in {<<>>, <<U_in_alice>>}
    /\ github_profile = get_github_profile(github_links)
    /\ basic_info = <<>>
    /\ skills = <<>>
    /\ experience = <<>>
    /\ projects = <<>>
    /\ education = <<>>
    /\ printed = <<>>
    /\ exp_lines = <<>>
    /\ line_idx = 1
    /\ exp_details = <<>>
    /\ open_point = <<>>
    /\ attempt = 0
    /\ requests = <<>>
    /\ parsed_data = JsonValue("unset", <<>>)

\* api_key = load_api_key(): the key, or the config error printed and sys.exit(1), which
\* no except clause of ats_extractor catches
LoadApiKey ==
    /\ pc = "load_api_key"
    /\ \/ /\ pc' = "post"
          /\ printed' = printed
       \/ /\ pc' = "exit"
          /\ printed' = Append(printed, [error |-> "Config error"])
    /\ UNCHANGED <<text, pdf_links, run, github_links, linkedin_links, github_profile,
                   basic_info, skills, experience, projects, education, loopVars, apiVars>>

\* one pass through the body of the retry loop: the request, and what its outcome leads
\* to: the next attempt, the parsed value returned, or the result of an except clause
Post ==
    /\ pc = "post"
    /\ attempt < retries
    /\ \E outcome \in Outcomes :
        /\ requests' = Append(requests, outcome)
        /\ IF Retried(outcome, attempt)
           THEN /\ attempt' = attempt + 1
                /\ pc' = "post"
                /\ parsed_data' = parsed_data
           ELSE /\ attempt' = attempt
                /\ pc' = "branch"
                /\ IF outcome = "parsed" THEN parsed_data' \in AiValues
                   ELSE \E message \in Handlers(outcome) :
                            parsed_data' = ErrorResult(message)
    /\ UNCHANGED <<text, pdf_links, run, github_links, linkedin_links, github_profile,
                   basic_info, skills, experience, projects, education, printed, loopVars>>

\* if isinstance(parsed_data, dict) and "error" in parsed_data: ... else: ...
Branch ==
    /\ pc = "branch"
    /\ pc' = IF IsErrorResult(parsed_data) THEN "extract_basic_info" ELSE "enhance"
    /\ UNCHANGED <<text, pdf_links, run, github_links, linkedin_links, github_profile,
                   basic_info, skills, experience, projects, education, printed, loopVars,
                   apiVars>>

\* The else branch and the print: the three items are set on the value and it is
\* printed; on a value that is no dict the first assignment raises TypeError and nothing
\* is printed
Enhance ==
    /\ pc = "enhance"
    /\ IF parsed_data.type = "dict"
       THEN /\ printed' = Append(printed,
                                 SetItem(SetItem(SetItem(parsed_data.value,
                                                         "github", LinkFields.github),
                                                 "linkedin", LinkFields.linkedin),
                                         "extraction_method", "ai"))
            /\ pc' = "exit"
       ELSE /\ printed' = printed
            /\ pc' = "raised"
    /\ UNCHANGED <<text, pdf_links, run, github_links, linkedin_links, github_profile,
                   basic_info, skills, experience, projects, education, loopVars, apiVars>>

NextMain ==
    \/ LoadApiKey
    \/ Post
    \/ Branch
    \/ Enhance
    \/ ExtractBasicInfo
    \/ ExtractSkills
    \/ ExtractExperience
    \/ ExtractProjects
    \/ ExtractEducation
    \/ Assemble

SpecMain == InitMain /\ [][NextMain]_vars

-----------------------------------------------------------------------------
(* extract_experience, one loop iteration at a time *)

\* 'Acme Tech Internship'
E_company == <<"A","c","m","e"," ","T","e","c","h"," ","I","n","t","e","r","n","s","h","i","p">>
\* 'Backend Intern'
E_intern == <<"B","a","c","k","e","n","d"," ","I","n","t","e","r","n">>
\* '<BULLET> XYZ Labs'
E_header == <<"BULLET"," ","X","Y","Z"," ","L","a","b","s">>
\* '<BULLET> Foo Corp'
E_second == <<"BULLET"," ","F","o","o"," ","C","o","r","p">>
\* 'Developer'
E_role == <<"D","e","v","e","l","o","p","e","r">>
\* '<ENDASH> Fixed four bugs'
E_short == <<"ENDASH"," ","F","i","x","e","d"," ","f","o","u","r"," ","b","u","g","s">>
\* '<BULLET>'
E_mark == <<"BULLET">>

\* the sequences of at most n elements of the set S
SeqsUpTo(S, n) == UNION {[1..k -> S] : k \in 0..n}

\* Sections in the bullet point format: a header and at most MaxWalk lines after it
MaxWalk == 4
WalkLines == {E_second, E_role, E_short, C_dash, C_hyphen, C_description}
WalkDocs == {Join(<<C_experience, E_header>> \o ls, NL) : ls \in SeqsUpTo(WalkLines, MaxWalk)}

\* Sections in the skills/expertise format: a company line and at most MaxWalk lines
\* after it
PointLines == {E_intern, E_mark, C_point, C_dash, C_hyphen, C_description}
PointDocs == {Join(<<C_experience, E_company>> \o ls, NL) : ls \in SeqsUpTo(PointLines, MaxWalk)}

ExperienceDocs == WalkDocs \cup PointDocs \cup LineDocs \cup {B_skills}

\* the state of extract_experience when it is called
InitExperience ==
    /\ text \in ExperienceDocs
    /\ pdf_links = <<>>
    /\ pc = "find_section"
    /\ run = 1
    /\ github_links = <<>>
    /\ linkedin_links = <<>>
    /\ github_profile = None
    /\ basic_info = <<>>
    /\ skills = <<>>
    /\ experience = <<>>
    /\ projects = <<>>
    /\ education = <<>>
    /\ printed = <<>>
    /\ exp_lines = <<>>
    /\ line_idx = 1
    /\ exp_details = <<>>
    /\ open_point = <<>>
    /\ attempt = 0
    /\ requests = <<>>
    /\ parsed_data = ErrorResult("Request failed")

\* Lines 308-318 and the branches without a loop of their own: the section is searched,
\* its lines are taken and the format is chosen; experience is the list experiences
FindSection ==
    /\ pc = "find_section"
    /\ IF ~exp_section_match(text).found
       THEN /\ pc' = "return"
            /\ UNCHANGED <<experience, exp_lines, line_idx>>
       ELSE /\ exp_lines' = ExperienceLines(text)
            /\ line_idx' = 1
            /\ IF LinesFormat(exp_lines') = "narrative"
               THEN pc' = "narrative_header" /\ experience' = experience
               ELSE IF LinesFormat(exp_lines') = "bullet"
               THEN pc' = "bullet_walk" /\ experience' = experience
               ELSE IF LinesFormat(exp_lines') = "descriptive"
               THEN pc' = "return" /\ experience' = DescriptiveExperience(exp_lines')
               ELSE /\ pc' = "return"
                    /\ experience' =
                           StructuredExperience(Strip(Group1(text, exp_section_match(text))))
    /\ UNCHANGED <<text, pdf_links, run, github_links, linkedin_links, github_profile,
                   basic_info, skills, projects, education, printed, exp_details,
                   open_point, apiVars>>

\* Lines 320-346: the company line is searched; the loop over the lines after it starts
\* with no detail and no open detail
NarrativeHeader ==
    /\ pc = "narrative_header"
    /\ IF CompanyLineIdx(exp_lines) = 0
       THEN pc' = "expertise" /\ line_idx' = line_idx
       ELSE pc' = "narrative_loop" /\ line_idx' = CompanyLineIdx(exp_lines) + 1
    /\ exp_details' = <<>>
    /\ open_point' = <<>>
    /\ UNCHANGED <<text, pdf_links, run, github_links, linkedin_links, github_profile,
                   basic_info, skills, experience, projects, education, printed, exp_lines,
                   apiVars>>

\* Lines 348-361: one iteration of the loop that collects the bullet points
NarrativeLine ==
    /\ pc = "narrative_loop"
    /\ line_idx <= Len(exp_lines)
    /\ \E st \in {NarrativeStep([details |-> exp_details, current_point |-> open_point],
                                exp_lines[line_idx])} :
           exp_details' = st.details /\ open_point' = st.current_point
    /\ line_idx' = line_idx + 1
    /\ UNCHANGED <<text, pdf_links, pc, run, github_links, linkedin_links, github_profile,
                   basic_info, skills, experience, projects, education, printed, exp_lines,
                   apiVars>>

\* Lines 363-380: the open detail is closed, the details are cleaned and the entry of the
\* company line is appended
NarrativeEntry ==
    /\ pc = "narrative_loop"
    /\ line_idx > Len(exp_lines)
    /\ exp_details' = IF open_point # <<>> THEN Append(exp_details, open_point)
                      ELSE exp_details
    /\ experience' =
           Append(experience,
                  Entry(NarrativeCompany(exp_lines[CompanyLineIdx(exp_lines)]),
                        NarrativeRole(exp_lines, CompanyLineIdx(exp_lines)),
                        NarrativeDuration(exp_lines[CompanyLineIdx(exp_lines)]),
                        Take(NarrativeCleaned(exp_details'), MaxDetails)))
    /\ pc' = "expertise"
    /\ UNCHANGED <<text, pdf_links, run, github_links, linkedin_links, github_profile,
                   basic_info, skills, projects, education, printed, exp_lines, line_idx,
                   open_point, apiVars>>

\* Lines 383-399: the entry of the expertise lines is appended and the list is returned
ExpertiseEntry ==
    /\ pc = "expertise"
    /\ experience' =
           IF ExpertiseLines(exp_lines) = <<>> THEN experience
           ELSE Append(experience,
                       Entry(S_Professional_Experience, S_Domain_Expertise, S_Current,
                             ExpertiseLines(exp_lines)))
    /\ pc' = "return"
    /\ UNCHANGED <<text, pdf_links, run, github_links, linkedin_links, github_profile,
                   basic_info, skills, projects, education, printed, loopVars, apiVars>>

\* Lines 407-453: one iteration of the outer while loop of the bullet point format
BulletIteration ==
    /\ pc = "bullet_walk"
    /\ line_idx <= Len(exp_lines)
    /\ \E st \in {BulletStep(exp_lines, [i |-> line_idx, experiences |-> experience])} :
           line_idx' = st.i /\ experience' = st.experiences
    /\ UNCHANGED <<text, pdf_links, pc, run, github_links, linkedin_links, github_profile,
                   basic_info, skills, projects, education, printed, exp_lines,
                   exp_details, open_point, apiVars>>

\* Line 407 when i < len(lines) is false: the loop is left and the list is returned
BulletReturn ==
    /\ pc = "bullet_walk"
    /\ line_idx > Len(exp_lines)
    /\ pc' = "return"
    /\ UNCHANGED <<text, pdf_links, run, github_links, linkedin_links, github_profile,
                   basic_info, skills, experience, projects, education, printed, loopVars,
                   apiVars>>

NextExperience ==
    \/ FindSection
    \/ NarrativeHeader
    \/ NarrativeLine
    \/ NarrativeEntry
    \/ ExpertiseEntry
    \/ BulletIteration
    \/ BulletReturn

SpecExperience == InitExperience /\ [][NextExperience]_vars

\* The bullet point format alone: the state of extract_experience at line 406, when the
\* section is in this format and the walk starts
InitWalk ==
    /\ text \in {d \in WalkDocs : ExperienceFormat(d) = "bullet"}
    /\ pdf_links = <<>>
    /\ pc = "bullet_walk"
    /\ run = 1
    /\ github_links = <<>>
    /\ linkedin_links = <<>>
    /\ github_profile = None
    /\ basic_info = <<>>
    /\ skills = <<>>
    /\ experience = <<>>
    /\ projects = <<>>
    /\ education = <<>>
    /\ printed = <<>>
    /\ exp_lines = ExperienceLines(text)
    /\ line_idx = 1
    /\ exp_details = <<>>
    /\ open_point = <<>>
    /\ attempt = 0
    /\ requests = <<>>
    /\ parsed_data = ErrorResult("Request failed")

NextWalk ==
    \/ BulletIteration
    \/ BulletReturn

\* the interpreter runs the next statement: no step of the walk waits for anything
FairSpecWalk == InitWalk /\ [][NextWalk]_vars /\ WF_vars(NextWalk)

-----------------------------------------------------------------------------
(* Properties *)

\* 'Acme'
S_Acme == <<"A","c","m","e">>
\* 'Software Engineer Intern'
S_Software_Engineer_Intern == <<"S","o","f","t","w","a","r","e"," ","E","n","g","i","n","e","e",
    "r"," ","I","n","t","e","r","n">>
\* 'Built a pipeline that reduced latency by 40%'
S_Built_pipeline == <<"B","u","i","l","t"," ","a"," ","p","i","p","e","l","i","n","e"," ","t",
    "h","a","t"," ","r","e","d","u","c","e","d"," ","l","a","t","e","n","c","y"," ","b","y"," ",
    "4","0","%">>
\* 'Python'
S_Python == <<"P","y","t","h","o","n">>
\* 'C++'
S_Cpp == <<"C","+","+">>
\* 'SQL'
S_SQL == <<"S","Q","L">>
\* 'http://github.com/'
S_http_github == <<"h","t","t","p",":","/","/","g","i","t","h","u","b",".","c","o","m","/">>
\* 'https://github.com/'
S_https_github == <<"h","t","t","p","s",":","/","/","g","i","t","h","u","b",".","c","o","m",
    "/">>

\* the positions of the fallback run, in the order of __main__
Steps == <<"extract_basic_info", "extract_skills", "extract_experience",
           "extract_projects", "extract_education", "assemble", "exit">>
StepOf(p) == CHOOSE i \in DOMAIN Steps : Steps[i] = p
\* the step has been taken
Done(step) == StepOf(pc) > StepOf(step)

\* C1: for every text the lists are capped: extract_skills returns at most 15 items,
\* every entry of extract_experience has at most 5 details and every entry of
\* extract_projects has at most 4 details.
C1_ListCaps ==
    /\ Len(skills) <= 15
    /\ \A i \in DOMAIN experience : Len(experience[i].details) <= 5
    /\ \A i \in DOMAIN projects : Len(projects[i].details) <= 4

\* C2 as stated: when the text holds no occurrence of a section's header keyword, the
\* extractor of that section returns an empty list.
C2_AbsentHeaderEmpty ==
    /\ Done("extract_skills") /\ ~ContainsCI(text, K_SKILLS) => skills = <<>>
    /\ Done("extract_experience") /\ ~ContainsCI(text, K_EXPERIENCE) => experience = <<>>
    /\ Done("extract_projects") /\ ~ContainsCI(text, K_PROJECTS) => projects = <<>>
    /\ Done("extract_education") /\ ~ContainsCI(text, K_EDUCATION) => education = <<>>

\* the tokens of the skill catalog, in lower case
CatalogTokens ==
    UNION {{LowerStr(skill_patterns[k][j]) : j \in DOMAIN skill_patterns[k]} :
              k \in DOMAIN skill_patterns}

\* C2 as amended: when the text holds no occurrence of the header keyword,
\* extract_experience, extract_projects and extract_education return an empty list,
\* and extract_skills returns only tokens of the skill catalog, none when the text
\* holds no such token.
C2_AbsentHeaderDefault ==
    /\ Done("extract_skills") /\ ~ContainsCI(text, K_SKILLS) =>
          /\ \A i \in DOMAIN skills : LowerStr(skills[i]) \in CatalogTokens
          /\ (\A c \in CatalogTokens : ~ContainsCI(text, c)) => skills = <<>>
    /\ Done("extract_experience") /\ ~ContainsCI(text, K_EXPERIENCE) => experience = <<>>
    /\ Done("extract_projects") /\ ~ContainsCI(text, K_PROJECTS) => projects = <<>>
    /\ Done("extract_education") /\ ~ContainsCI(text, K_EDUCATION) => education = <<>>

\* a run has ended on a text without SKILLS, EXPERIENCE and EDUCATION header that names
\* a catalog skill: the skill is returned, experience and education are empty
C2_Witness ==
    /\ pc = "exit"
    /\ ~ContainsCI(text, K_SKILLS)
    /\ ~ContainsCI(text, K_EXPERIENCE)
    /\ ~ContainsCI(text, K_EDUCATION)
    /\ skills = <<S_Python>>
    /\ experience = <<>>
    /\ education = <<>>

\* C3: Scenario B: for the EXPERIENCE section of the three lines
\* "<BULLET> Acme Technologies Summer Internship", "Software Engineer Intern",
\* "<ENDASH> Built a pipeline that reduced latency by 40%", extract_experience returns
\* exactly one entry: company "Acme", duration "Summer Internship", role
\* "Software Engineer Intern", details ["Built a pipeline that reduced latency by 40%"].
C3_ScenarioB ==
    Done("extract_experience") /\ text = B_scenario =>
        experience = <<Entry(S_Acme, S_Software_Engineer_Intern, S_Summer_Internship,
                             <<S_Built_pipeline>>)>>

\* http(s)://github.com/<exactly one path segment>, nothing after it
BareProfile(link) ==
    \E prefix \in {S_http_github, S_https_github} :
        /\ StartsWith(link, prefix)
        /\ Len(link) > Len(prefix)
        /\ Len(Split(Drop(link, Len(prefix)), "/")) = 1

\* C4: get_github_profile returns the first element, in list order, of the bare profile
\* shape, never a URL with a second path segment, and None when no element has the shape.
C4_FirstBareProfile ==
    pc \in {"print", "exit"} =>
        LET bare == {i \in DOMAIN github_links : BareProfile(github_links[i])}
        IN  /\ bare = {} => github_profile = None
            /\ bare # {} => github_profile = github_links[Min(bare)]
            /\ github_profile # None => BareProfile(github_profile)

\* a repository URL precedes a profile URL in the list, and the profile URL is returned
C4_Witness ==
    /\ pc = "print"
    /\ Len(github_links) >= 2
    /\ github_links[1] = U_alice_repo1
    /\ github_links[2] = U_alice
    /\ github_profile = U_alice

\* C5: two runs of the program on the same text and the same embedded links print the
\* same github and linkedin fields.
C5_Deterministic == Len(printed) = 2 => printed[1] = printed[2]

\* xs holds no element twice
NoDuplicates(xs) == \A i, j \in DOMAIN xs : xs[i] = xs[j] => i = j

\* C6: after extract_links has combined the two sources, the github list and the
\* linkedin list each hold every URL found by either source exactly once.
C6_UnionOnce ==
    pc \in {"get_github_profile", "print", "exit"} =>
        /\ NoDuplicates(github_links)
        /\ Range(github_links) = Range(extract_links_from_pdf(pdf_links).github)
                                 \cup Range(extract_links_from_text(text).github)
        /\ NoDuplicates(linkedin_links)
        /\ Range(linkedin_links) = Range(extract_links_from_pdf(pdf_links).linkedin)
                                   \cup Range(extract_links_from_text(text).linkedin)

\* the same URL is an embedded link and is written in the text, another URL is only
\* embedded: the combined list holds the two, each once
C6_Witness ==
    /\ pc = "get_github_profile"
    /\ pdf_links = <<U_alice, U_bob>>
    /\ extract_links_from_text(text).github = <<U_alice>>
    /\ Len(github_links) = 2
    /\ Range(github_links) = {U_alice, U_bob}

\* a line "<label> <item1> | ... | <itemN>"
PipeLine(line) == Contains(line, <<"|">>) /\ Len(Words(line)) >= 2

\* the text is a SKILLS header line followed by lines of that form only
PipeSection(t) ==
    LET ls == Split(t, "\n")
    IN  /\ Len(ls) >= 2
        /\ ls[1] \in {K_SKILLS, K_TECHNICAL_SKILLS}
        /\ \A i \in 2..Len(ls) : PipeLine(ls[i])

\* the trimmed items of the line, its leading label token discarded
LabelledItems(line) ==
    LET s == Strip(line)
        rest == Drop(s, Len(Words(s)[1]))
        items == Split(rest, "|")
    IN  SelectSeq([i \in DOMAIN items |-> Strip(items[i])], NonEmpty)

\* the items of all lines of the section, in document order, after the post-filter
ExpectedSkills(t) ==
    LET ls == Tail(Split(t, "\n"))
    IN  Take(CleanSkills(Flatten([i \in DOMAIN ls |-> LabelledItems(ls[i])]), <<>>), 15)

\* C7: Scenario A, generalised: when the SKILLS section consists of lines
\* "<label> <item1> | ... | <itemN>", extract_skills returns the trimmed items of all
\* the lines in document order, the labels discarded, subject to the post-filter and
\* the cap of 15; the line "Languages Python | C++ | SQL" yields ["Python", "C++", "SQL"].
C7_PipeItems ==
    /\ Done("extract_skills") /\ PipeSection(text) => skills = ExpectedSkills(text)
    /\ Done("extract_skills") /\ text = B_skills => skills = <<S_Python, S_Cpp, S_SQL>>

\* the candidate line of the name scan, as the description words it
NameCandidate(line) ==
    LET s == Strip(line)
        ws == Words(s)
        bare(w) == SelectSeq(w, LAMBDA c : c \notin {".", ","})
    IN  /\ s # <<>>
        /\ LowerStr(s) \notin {S_resume, S_cv, S_curriculum_vitae}
        /\ Len(ws) \in 2..4
        /\ \A i \in DOMAIN ws : /\ bare(ws[i]) # <<>>
                                /\ \A k \in DOMAIN bare(ws[i]) : IsAlpha(bare(ws[i])[k])
                                /\ ws[i][1] \in UpperSet

\* C8: extract_basic_info returns as name the first line, among the first 10 lines of
\* the text, that is not blank, is not 'resume', 'cv' or 'curriculum vitae' in any case,
\* has 2 to 4 words, each alphabetic once '.' and ',' are stripped and starting with an
\* uppercase character; it returns 'Not found' when the first 10 lines hold no such line.
C8_FirstNameLine ==
    Done("extract_basic_info") =>
        LET lines == Split(text, "\n")
            cands == {i \in DOMAIN lines : i <= 10 /\ NameCandidate(lines[i])}
        IN  /\ cands = {} => basic_info[1].name = NotFound
            /\ cands # {} => basic_info[1].name = Strip(lines[Min(cands)])

\* the line 'Resume' precedes the all-caps line 'JOHN SMITH DOE': the first is skipped,
\* the second is the name
C8_Witness ==
    /\ Done("extract_basic_info")
    /\ Len(Split(text, "\n")) >= 2
    /\ Split(text, "\n")[1] = P_resume
    /\ Split(text, "\n")[2] = N_caps
    /\ basic_info[1].name = N_caps

\* the positions where the keyword stands as a header: a whole token that ends its line
HeaderPositions(t, keyword) ==
    {i \in 1..Len(t) :
        /\ MatchAtCI(t, i, keyword)
        /\ i = 1 \/ ~IsWord(t[i - 1])
        /\ i + Len(keyword) > Len(t) \/ t[i + Len(keyword)] = "\n"}

\* the four section kinds: the header keyword and the step that extracts the section
SectionKinds ==
    <<[keyword |-> K_SKILLS, step |-> "extract_skills"],
      [keyword |-> K_EXPERIENCE, step |-> "extract_experience"],
      [keyword |-> K_PROJECTS, step |-> "extract_projects"],
      [keyword |-> K_EDUCATION, step |-> "extract_education"]>>

\* the match of the section pattern of the k-th kind
KindMatch(t, k) ==
    CASE k = 1 -> skills_section_match(t)
      [] k = 2 -> exp_section_match(t)
      [] k = 3 -> SectionMatch(t, K_PROJECTS, ProjectsTerminators)
      [] k = 4 -> edu_section_match(t)

AllKeywords ==
    SkillsTerminators \cup ExperienceTerminators \cup ProjectsTerminators
        \cup EducationTerminators

\* C9: section headers are matched as whole tokens, not substrings: a header keyword
\* inside body prose neither starts a section nor terminates the capture of another one.
C9_WholeTokenHeaders ==
    /\ Done("extract_experience") /\ HeaderPositions(text, K_EXPERIENCE) = {} =>
           experience = <<>>
    /\ \A k \in DOMAIN SectionKinds :
           Done(SectionKinds[k].step) =>
               LET m == KindMatch(text, k)
               IN  m.found =>
                       /\ m.at \in HeaderPositions(text, SectionKinds[k].keyword)
                       /\ \/ m.to = Len(text) + 1
                          \/ \E other \in AllKeywords : m.to \in HeaderPositions(text, other)

\* C10: the captured section bodies do not overlap: for every pair of distinct kinds
\* among SKILLS, EXPERIENCE, PROJECTS, EDUCATION the body captured for one kind ends at
\* or before the first later header of the other kind, in every order of the headers.
C10_NoOverlap ==
    \A k \in DOMAIN SectionKinds :
        Done(SectionKinds[k].step) =>
            LET m == KindMatch(text, k)
            IN  m.found =>
                    \A o \in DOMAIN SectionKinds \ {k} :
                        \A i \in HeaderPositions(text, SectionKinds[o].keyword) :
                            i >= m.from => m.to <= i

\* the steps of the fallback branch of __main__
FallbackSteps ==
    {"extract_basic_info", "extract_skills", "extract_experience", "extract_projects",
     "extract_education", "assemble"}

\* ats_extractor has returned an error result: a dict with the key 'error'
ReturnedError == parsed_data.type = "dict" /\ "error" \in DOMAIN parsed_data.value

\* C11: In every run of the main pipeline the fallback extractors are invoked only after
\* ats_extractor has returned an error result, and the record the run prints carries
\* extraction_method 'fallback' in exactly the runs where it did, and 'ai' in every other
\* run that prints a record.
C11_FallbackOnlyAfterError ==
    /\ pc \in FallbackSteps \/ basic_info # <<>> => ReturnedError
    /\ parsed_data.type # "unset" =>
           \A k \in DOMAIN printed :
               printed[k].extraction_method =
                   IF ReturnedError THEN "fallback" ELSE "ai"
    /\ pc = "exit" /\ ReturnedError => Len(printed) = 1

\* a run whose third request timed out has printed the record of the fallback extractors
C11_Witness ==
    /\ pc = "exit"
    /\ requests = <<"timeout", "timeout", "timeout">>
    /\ ReturnedError
    /\ basic_info # <<>>
    /\ Len(printed) = 1
    /\ printed[1].extraction_method = "fallback"

\* the string holds w as a word: an occurrence with no word character on either side
HasWord(s, w) ==
    \E p \in 1..Len(s) :
        /\ MatchAtCI(s, p, w)
        /\ p = 1 \/ ~IsWord(s[p - 1])
        /\ p + Len(w) > Len(s) \/ ~IsWord(s[p + Len(w)])

\* the strategy the stated priority order chooses for the lines of a section
StatedFormat(section_lines) ==
    IF \E k \in DOMAIN Take(section_lines, 2) :
           HasWord(section_lines[k], S_in) \/ HasWord(section_lines[k], S_and)
    THEN "narrative"
    ELSE IF StartsWith(section_lines[1], <<"BULLET">>) THEN "bullet"
    ELSE "structured"

\* what the strategy of that name returns for the section of t
StrategyResult(t, format) ==
    IF format = "narrative" THEN NarrativeExperience(ExperienceLines(t))
    ELSE IF format = "bullet" THEN BulletExperience(ExperienceLines(t))
    ELSE IF DescriptiveTrigger(ExperienceLines(t))
    THEN DescriptiveExperience(ExperienceLines(t))
    ELSE StructuredExperience(Strip(Group1(t, exp_section_match(t))))

\* C12: For every non-empty EXPERIENCE body exactly one strategy produces the result, in
\* the priority order: narrative iff one of the first two lines contains the word 'in' or
\* 'and', otherwise bullet-company iff the first line starts with a bullet marker,
\* otherwise structured/descriptive.  A body whose first two lines hold 'in' and 'and'
\* only inside longer words is never handled by the narrative format.
C12_FormatByWord ==
    Done("extract_experience") /\ exp_section_match(text).found
                               /\ ExperienceLines(text) # <<>> =>
        /\ ExperienceFormat(text) = "narrative"
               <=> StatedFormat(ExperienceLines(text)) = "narrative"
        /\ ExperienceFormat(text) = "bullet"
               <=> StatedFormat(ExperienceLines(text)) = "bullet"
        /\ experience = StrategyResult(text, StatedFormat(ExperienceLines(text)))

\* the positions of the bullet header lines
BulletHeaders(ls) == {k \in DOMAIN ls : StartsWith(ls[k], <<"BULLET">>)}

\* the n-th bullet header in document order
NthHeader(ls, n) ==
    CHOOSE k \in BulletHeaders(ls) : Cardinality({j \in BulletHeaders(ls) : j <= k}) = n

\* the position of the next bullet header after h, or the position after the last line
NextHeader(ls, h) == Min({k \in BulletHeaders(ls) : k > h} \cup {Len(ls) + 1})

\* a dash-prefixed line whose text has at least 15 characters
StatedResponsibility(line) ==
    /\ StartsWith(line, <<"ENDASH">>) \/ StartsWith(line, <<"-">>)
    /\ Len(AfterMarker(line)) >= 15

\* the texts of those lines between the header at h and the next header, at most 5
StatedResponsibilities(ls, h) ==
    LET kept == SelectSeq(SubSeq(ls, h + 1, NextHeader(ls, h) - 1), StatedResponsibility)
    IN  Take([n \in DOMAIN kept |-> AfterMarker(kept[n])], 5)

\* C13: In the bullet-company format one entry is emitted per bullet header, and its
\* details are, in document order and up to the cap of 5, all the dash-prefixed lines of
\* at least 15 characters that lie between that header and the next bullet header or the
\* end of the section.
C13_DashLinesRecorded ==
    pc = "return" /\ LinesFormat(exp_lines) = "bullet" =>
        /\ Len(experience) = Cardinality(BulletHeaders(exp_lines))
        /\ \A n \in DOMAIN experience :
               n <= Cardinality(BulletHeaders(exp_lines)) =>
                   experience[n].details =
                       StatedResponsibilities(exp_lines, NthHeader(exp_lines, n))

\* the role the header at h has: the next line if it is neither a bullet line nor a dash
\* line, else 'Unknown Role'
StatedRole(ls, h) ==
    IF /\ h + 1 <= Len(ls)
       /\ ~StartsWith(ls[h + 1], <<"BULLET">>)
       /\ ~StartsWith(ls[h + 1], <<"ENDASH">>)
       /\ ~StartsWith(ls[h + 1], <<"-">>)
    THEN ls[h + 1] ELSE S_Unknown_Role

\* the line after the header at h is a dash line that is long enough for a responsibility
DashAfterHeader(ls, h) ==
    /\ h + 1 <= Len(ls)
    /\ StartsWith(ls[h + 1], <<"ENDASH">>) \/ StartsWith(ls[h + 1], <<"-">>)
    /\ Len(AfterMarker(ls[h + 1])) > MinResponsibility

\* C14: In the bullet-company format the line after a bullet header is the role only if
\* it is neither a bullet line nor a dash line ('-' or the en dash); when it is one of
\* these, or there is no following line, the role is 'Unknown Role' and that line is not
\* consumed as the role: a dash line stays the first responsibility.
C14_RoleLine ==
    pc = "return" /\ LinesFormat(exp_lines) = "bullet"
                  /\ Len(experience) = Cardinality(BulletHeaders(exp_lines)) =>
        \A n \in DOMAIN experience :
            /\ experience[n].role = StatedRole(exp_lines, NthHeader(exp_lines, n))
            /\ DashAfterHeader(exp_lines, NthHeader(exp_lines, n)) =>
                   /\ experience[n].details # <<>>
                   /\ experience[n].details[1] =
                          AfterMarker(exp_lines[NthHeader(exp_lines, n) + 1])

\* the bullet lines after the company line that have a text, in document order
PointPositions(ls) ==
    {k \in DOMAIN ls : /\ k > CompanyLineIdx(ls)
                       /\ StartsWithAny(ls[k], BulletChars)
                       /\ AfterMarker(ls[k]) # <<>>}

NthPoint(ls, n) ==
    CHOOSE k \in PointPositions(ls) : Cardinality({j \in PointPositions(ls) : j <= k}) = n

\* C15: In the narrative format's detail accumulation over the lines after the company
\* header, each bullet line closes the open detail and opens a new one, each line that is
\* no bullet line is appended to the open detail when there is one, and never starts a
\* detail when there is none; hence every emitted detail starts with the text of a
\* bullet line and the details appear in document order.
C15_DetailsFromBullets ==
    /\ [][pc = "narrative_loop" /\ line_idx' = line_idx + 1 =>
            IF StartsWithAny(exp_lines[line_idx], BulletChars)
            THEN /\ exp_details' = IF open_point # <<>> THEN Append(exp_details, open_point)
                                   ELSE exp_details
                 /\ open_point' = AfterMarker(exp_lines[line_idx])
            ELSE IF open_point # <<>>
            THEN /\ exp_details' = exp_details
                 /\ open_point' = open_point \o <<" ">> \o exp_lines[line_idx]
            ELSE /\ exp_details' = exp_details
                 /\ open_point' = <<>>]_vars
    /\ [](pc = "return" /\ LinesFormat(exp_lines) = "narrative"
                        /\ CompanyLineIdx(exp_lines) # 0 =>
            /\ Len(exp_details) = Cardinality(PointPositions(exp_lines))
            /\ \A n \in DOMAIN exp_details :
                   n <= Cardinality(PointPositions(exp_lines)) =>
                       StartsWith(exp_details[n],
                                  AfterMarker(exp_lines[NthPoint(exp_lines, n)])))

\* C16: extract_experience terminates on every input: in the bullet-company walk the line
\* index strictly increases on every iteration of the outer loop, whether the line is a
\* bullet header, with or without a role line and responsibilities, or any other line,
\* so the walk ends with the index past the last line and the function returns.
C16_WalkTerminates ==
    /\ [][pc = "bullet_walk" /\ pc' = "bullet_walk" => line_idx' > line_idx]_vars
    /\ [](pc = "return" /\ LinesFormat(exp_lines) = "bullet" => line_idx > Len(exp_lines))
    /\ <>(pc = "return")

\* a walk over a header with a role line and a responsibility, a line that is no header,
\* and a header without a role line has ended
C16_Witness ==
    /\ pc = "return"
    /\ exp_lines = <<E_header, E_role, C_dash, C_description, E_second>>
    /\ line_idx = 6
    /\ Len(experience) = 2

\* the call of ats_extractor has ended
Returned == pc \notin {"load_api_key", "post"} /\ requests # <<>>

\* C17: Once the API key is loaded, a call of ats_extractor sends at most 3 requests; a
\* further request is sent only after the previous one timed out; any other failure ends
\* the call without another request; and in every case, three consecutive timeouts
\* included, the call returns the parsed JSON value or a dict with the key 'error'.
C17_BoundedRetries ==
    /\ Len(requests) <= 3
    /\ \A k \in DOMAIN requests : k < Len(requests) => requests[k] = "timeout"
    /\ pc = "post" => /\ \A k \in DOMAIN requests : requests[k] = "timeout"
                      /\ Len(requests) < 3
    /\ Returned =>
           IF requests[Len(requests)] = "parsed" THEN parsed_data \in AiValues
           ELSE ReturnedError

\* the call has returned an error result after three requests that timed out
C17_Witness ==
    /\ pc = "branch"
    /\ requests = <<"timeout", "timeout", "timeout">>
    /\ ReturnedError
====
